---------------------------- MODULE Spec2Model ----------------------------
(***************************************************************************)
(* A model of src/las/point10.rs: the Point10 (LAS point format 0) record, *)
(* its two views (Point0, Point0Wrapper), and the version 1 and version 2  *)
(* field compressors and decompressors.                                    *)
(*                                                                         *)
(* The arithmetic coder, the integer coders, the streaming median and the  *)
(* two return-number tables live outside point10.rs; they are modelled     *)
(* from their contract: a coder call is put on the stream as (coder,       *)
(* selector, code) and a decoder call gives back the coded value only when *)
(* it asks the same coder with the same selector.                          *)
(***************************************************************************)
EXTENDS Integers, Sequences, FiniteSets, TLC

VARIABLES
    overflow_checks,  \* the build panics on arithmetic overflow (else it wraps)
    pool,       \* the points a caller may feed to the compressors
    c1, d1,     \* v1::LasPoint0Compressor, v1::LasPoint0Decompressor
    c2, d2,     \* v2::LasPoint0Compressor, v2::LasPoint0Decompressor
    sink1, sink2,   \* the byte sink / arithmetic-coded stream of each version
    rd1, rd2,       \* read positions of the decompressors in the stream
    sent1, sent2,   \* points encoded so far
    got1, got2,     \* points decoded so far
    last,           \* the last operation: its name, its calls, the state before it
    buffer,         \* the caller's byte buffer in the last operation that took one
    rec, view,      \* one record held as a Point0 and as a Point0Wrapper
    setter_calls,   \* trait setter calls made on rec and view
    ret,            \* the last call of a function on its own: name, input, output
    fault,          \* which call of the next operation to the source, the sink
                    \* or a coder returns an error (0: none does)
    twin            \* a second v2 stream: its compressor, decompressor, sink,
                    \* read position and points

vars == <<overflow_checks, pool, c1, d1, c2, d2, sink1, sink2, rd1, rd2,
          sent1, sent2, got1, got2, last, buffer, rec, view, setter_calls, ret,
          fault, twin>>

---------------------------------------------------------------------------
(* Bounds of the model *)

\* points per stream (the first point included)
MaxPoints == 3

\* the longest v1 stream over WindowPool
MaxWindowPoints == 5

\* the longest v1 stream over LazyPool
MaxLazyPoints == 4

\* the longest caller buffer
MaxBufLen == 21

---------------------------------------------------------------------------
(* Fixed-width integers *)

I32Max == 2147483647
I32Min == -I32Max - 1
I8Max == 127
I8Min == -I8Max - 1

Bytes == 0..255

\* a - b leaves the i32 range
SubOverflows32(a, b) ==
    \/ b > 0 /\ a < I32Min + b
    \/ b < 0 /\ a > I32Max + b

\* a + b leaves the i32 range
AddOverflows32(a, b) ==
    \/ b > 0 /\ a > I32Max - b
    \/ b < 0 /\ a < I32Min - b

\* i32::wrapping_sub, computed without leaving the i32 range
WrappingSub32(a, b) ==
    IF b > 0 /\ a < I32Min + b THEN ((a - I32Min) + (I32Max - b)) + 1
    ELSE IF b < 0 /\ a > I32Max + b THEN ((a - I32Max) + (I32Min - b)) - 1
    ELSE a - b

\* i32::wrapping_add
WrappingAdd32(a, b) ==
    IF b > 0 /\ a > I32Max - b THEN ((a - I32Max) + (b + I32Min)) - 1
    ELSE IF b < 0 /\ a < I32Min - b THEN ((a - I32Min) + (b + I32Max)) + 1
    ELSE a + b

InI8(v) == v >= I8Min /\ v <= I8Max

\* `as i8` of an integer
AsI8(v) == LET b == v % 256 IN IF b >= 128 THEN b - 256 ELSE b

\* `as u8` of an integer
AsU8(v) == v % 256

\* `as u16` of an integer
AsU16(v) == v % 65536

\* to_le_bytes of an i32
I32ToLe(v) ==
    << v % 256, (v \div 256) % 256, (v \div 65536) % 256, (v \div 16777216) % 256 >>

\* i32::from_le_bytes
I32FromLe(b) ==
    b[1] + 256 * b[2] + 65536 * b[3]
    + 16777216 * (IF b[4] >= 128 THEN b[4] - 256 ELSE b[4])

\* to_le_bytes of a u16
U16ToLe(v) == << v % 256, (v \div 256) % 256 >>

\* u16::from_be_bytes: the two bytes read in the other order
U16FromBe(b) == 256 * b[1] + b[2]

\* u16::from_le_bytes
U16FromLe(b) == b[1] + 256 * b[2]

BoolAsInt(b) == IF b THEN 1 ELSE 0

\* the bit `mask` (a power of two) of `v`
BitSet(v, mask) == (v \div mask) % 2 = 1


---------------------------------------------------------------------------
(* The owning record, Point0 *)

\* #[derive(Default)] Point0
DefaultPoint0 ==
    [ x |-> 0, y |-> 0, z |-> 0, intensity |-> 0,
      number_of_returns_of_given_pulse |-> 0,
      scan_direction_flag |-> FALSE,
      edge_of_flight_line |-> FALSE,
      return_number |-> 0,
      classification |-> 0, scan_angle_rank |-> 0,
      user_data |-> 0, point_source_id |-> 0 ]

\* populate_bit_fields_from with number_of_returns taken from bit 4 upwards,
\* as if the byte held two nibbles: what the unpacking must not be
populate_bit_fields_from_nibbles(p, byte) ==
    [ p EXCEPT !.return_number = byte % 8,
               !.number_of_returns_of_given_pulse = (byte \div 16) % 8,
               !.scan_direction_flag = ((byte \div 64) % 2) # 0,
               !.edge_of_flight_line = ((byte \div 128) % 2) # 0 ]

\* populate_bit_fields_from with a four-bit mask on return_number
populate_bit_fields_from_wide(p, byte) ==
    [ p EXCEPT !.return_number = byte % 16,
               !.number_of_returns_of_given_pulse = (byte \div 8) % 8,
               !.scan_direction_flag = ((byte \div 64) % 2) # 0,
               !.edge_of_flight_line = ((byte \div 128) % 2) # 0 ]

\* lines 133-138
populate_bit_fields_from(p, byte) ==
    [ p EXCEPT !.return_number = byte % 8,
               !.number_of_returns_of_given_pulse = (byte \div 8) % 8,
               !.scan_direction_flag = ((byte \div 64) % 2) # 0,
               !.edge_of_flight_line = ((byte \div 128) % 2) # 0 ]

\* the four masked sub-fields occupy disjoint bits, so | is +
bit_fields_to_byte(p) ==
    LET a == p.return_number
        b == p.number_of_returns_of_given_pulse
        c == BoolAsInt(p.scan_direction_flag)
        d == BoolAsInt(p.edge_of_flight_line)
    IN  ((d % 2) * 128) + ((c % 2) * 64) + ((b % 8) * 8) + (a % 8)

\* LasPoint0::set_fields_from for a Point0 receiver: one setter per field,
\* bit_fields through the packed byte
Point0SetFieldsFrom(p, other) ==
    LET q == [ p EXCEPT !.x = other.x, !.y = other.y, !.z = other.z,
                        !.intensity = other.intensity ]
        r == populate_bit_fields_from(q, bit_fields_to_byte(other))
    IN  [ r EXCEPT !.classification = other.classification,
                   !.scan_angle_rank = other.scan_angle_rank,
                   !.user_data = other.user_data,
                   !.point_source_id = other.point_source_id ]

\* write_to with the user_data and scan_angle_rank bytes in each other's
\* place: a layout the first-point property must tell from the format's
write_to_swapped(p) ==
    I32ToLe(p.x) \o I32ToLe(p.y) \o I32ToLe(p.z)
    \o U16ToLe(p.intensity)
    \o << bit_fields_to_byte(p) >>
    \o << p.classification >>
    \o << p.user_data >>
    \o << AsU8(p.scan_angle_rank) >>
    \o U16ToLe(p.point_source_id)

\* LasPoint0::write_to: the bytes handed to the sink, in order
write_to(p) ==
    I32ToLe(p.x) \o I32ToLe(p.y) \o I32ToLe(p.z)
    \o U16ToLe(p.intensity)
    \o << bit_fields_to_byte(p) >>
    \o << p.classification >>
    \o << AsU8(p.scan_angle_rank) >>
    \o << p.user_data >>
    \o U16ToLe(p.point_source_id)

\* LasPoint0::read_from for a Point0 receiver, given the bytes the source
\* delivers (at least 20)
read_from(p, b) ==
    LET q == [ p EXCEPT !.x = I32FromLe(SubSeq(b, 1, 4)),
                        !.y = I32FromLe(SubSeq(b, 5, 8)),
                        !.z = I32FromLe(SubSeq(b, 9, 12)),
                        !.intensity = U16FromLe(SubSeq(b, 13, 14)) ]
        r == populate_bit_fields_from(q, b[15])
    IN  [ r EXCEPT !.classification = b[16],
                   !.scan_angle_rank = AsI8(b[17]),
                   !.user_data = b[18],
                   !.point_source_id = U16FromLe(SubSeq(b, 19, 20)) ]

\* the length test that opens unpack_from, pack_into and Point0Wrapper::new
RecordLen == 20

\* the offset in the record after each of the nine values that write_to
\* writes and read_from reads
ValueEnds == << 4, 8, 12, 14, 15, 16, 17, 18, 20 >>

\* the fields each of the nine setters of read_from sets
ValueFields ==
    << {"x"}, {"y"}, {"z"}, {"intensity"},
       {"return_number", "number_of_returns_of_given_pulse",
        "scan_direction_flag", "edge_of_flight_line"},
       {"classification"}, {"scan_angle_rank"}, {"user_data"},
       {"point_source_id"} >>

\* the bytes of the values before value number fail_at
BytesBefore(fail_at) == IF fail_at = 1 THEN 0 ELSE ValueEnds[fail_at - 1]

\* write_to when the sink returns Err from write number fail_at: `?` leaves
\* the function, the earlier values are in the sink
write_to_failing(p, fail_at) == SubSeq(write_to(p), 1, BytesBefore(fail_at))

\* read_from when the source returns Err from read number fail_at: `?`
\* leaves the function, the setters of the earlier values have run
read_from_failing(p, b, fail_at) ==
    [ f \in DOMAIN p |->
        IF \E k \in 1..(fail_at - 1) : f \in ValueFields[k]
        THEN read_from(p, b)[f]
        ELSE p[f] ]

\* the 0-based offsets unpack_from loads and pack_into stores, one range
\* per get_unchecked / get_unchecked_mut
FieldRanges ==
    { 0..3, 4..7, 8..11, 12..13, 14..14, 15..15, 16..16, 17..17, 18..19 }

\* Packable::unpack_from: a panic below 20 bytes, else loads at fixed offsets
unpack_from(input) ==
    IF Len(input) < RecordLen
    THEN [ status |-> "panic", point |-> DefaultPoint0, touched |-> {} ]
    ELSE LET p0 == [ DefaultPoint0 EXCEPT
                        !.x = I32FromLe(SubSeq(input, 1, 4)),
                        !.y = I32FromLe(SubSeq(input, 5, 8)),
                        !.z = I32FromLe(SubSeq(input, 9, 12)),
                        !.intensity = U16FromLe(SubSeq(input, 13, 14)) ]
             p1 == populate_bit_fields_from(p0, input[15])
         IN  [ status |-> "ok",
               point |-> [ p1 EXCEPT !.classification = input[16],
                                     !.scan_angle_rank = AsI8(input[17]),
                                     !.user_data = input[18],
                                     !.point_source_id =
                                         U16FromLe(SubSeq(input, 19, 20)) ],
               touched |-> UNION FieldRanges ]

\* `output` with `bytes` stored from 0-based offset `start`; what does not
\* fit in `output` is not in it
StoreAt(output, start, bytes) ==
    [ i \in 1..Len(output) |->
        IF i > start /\ i <= start + Len(bytes) THEN bytes[i - start]
        ELSE output[i] ]

\* output.get_unchecked_mut(start..end) filled by a primitive's pack_into:
\* o is [bytes, touched]
PackStore(o, start, bytes) ==
    [ bytes |-> StoreAt(o.bytes, start, bytes),
      touched |-> o.touched \cup (start..(start + Len(bytes) - 1)) ]

\* the nine stores of pack_into (lines 450-494)
PackFields(p, o) ==
    PackStore(PackStore(PackStore(PackStore(PackStore(
    PackStore(PackStore(PackStore(PackStore(o,
        0, I32ToLe(p.x)),
        4, I32ToLe(p.y)),
        8, I32ToLe(p.z)),
        12, U16ToLe(p.intensity)),
        14, << bit_fields_to_byte(p) >>),
        15, << p.classification >>),
        16, << AsU8(p.scan_angle_rank) >>),
        17, << p.user_data >>),
        18, U16ToLe(p.point_source_id))

\* pack_into without the length test: it stores what fits
pack_into_untested(p, output) ==
    [ status |-> "ok",
      output |-> PackFields(p, [ bytes |-> output, touched |-> {} ]).bytes,
      touched |-> PackFields(p, [ bytes |-> output, touched |-> {} ]).touched ]

\* Packable::pack_into: a panic below 20 bytes (nothing stored), else stores
\* at fixed offsets
pack_into(p, output) ==
    IF Len(output) < RecordLen
    THEN [ status |-> "panic", output |-> output, touched |-> {} ]
    ELSE [ status |-> "ok",
           output |-> PackFields(p, [ bytes |-> output, touched |-> {} ]).bytes,
           touched |-> PackFields(p, [ bytes |-> output, touched |-> {} ]).touched ]

---------------------------------------------------------------------------
(* The borrowed view, Point0Wrapper: unchecked loads and stores on a slice *)
(* A view is [mem, len, oob, dead]: the memory at the slice's address (the *)
(* slice, and behind a slice of less than 20 bytes what lies up to offset  *)
(* 20), the slice's length, the 0-based offsets at or past the slice's end *)
(* that were accessed, and whether an unchecked access aborted.            *)
(* An unchecked access past the end is undefined: the build either aborts  *)
(* at it (unsafe preconditions checked) or accesses the memory behind the  *)
(* slice.                                                                  *)

\* the memory a view of slc works on
MemoryAt(slc) ==
    IF Len(slc) >= RecordLen THEN slc
    ELSE slc \o [ i \in 1..(RecordLen - Len(slc)) |-> 0 ]

\* Point0Wrapper { slc }: the struct literal, no length test
Point0WrapperLiteral(slc) ==
    [ mem |-> MemoryAt(slc), len |-> Len(slc), oob |-> {}, dead |-> FALSE ]

\* Point0Wrapper::new: the only place the slice length is tested
Point0WrapperNew(slc) ==
    [ status |-> IF Len(slc) < RecordLen THEN "panic" ELSE "ok",
      w |-> Point0WrapperLiteral(slc) ]

\* the slice of a view
WrapperSlice(w) == SubSeq(w.mem, 1, w.len)

\* get_unchecked_mut(start..start+n).copy_from_slice(bytes)
WrapperStore(w, start, bytes, abort) ==
    IF w.dead THEN w
    ELSE IF start + Len(bytes) > w.len /\ abort
    THEN [ w EXCEPT !.dead = TRUE ]
    ELSE [ w EXCEPT !.mem = StoreAt(@, start, bytes),
                    !.oob = @ \cup { i \in start..(start + Len(bytes) - 1) :
                                       i >= w.len } ]

\* LasPoint0::set_fields_from for a Point0Wrapper receiver: the nine setters
\* (lines 328-390), each an unchecked store
WrapperSetFieldsFrom(w, other, abort) ==
    WrapperStore(WrapperStore(WrapperStore(WrapperStore(WrapperStore(
    WrapperStore(WrapperStore(WrapperStore(WrapperStore(w,
        0, I32ToLe(other.x), abort),
        4, I32ToLe(other.y), abort),
        8, I32ToLe(other.z), abort),
        12, U16ToLe(other.intensity), abort),
        14, << bit_fields_to_byte(other) >>, abort),
        15, << other.classification >>, abort),
        16, << AsU8(other.scan_angle_rank) >>, abort),
        17, << other.user_data >>, abort),
        18, U16ToLe(other.point_source_id), abort)

\* the nine getters of a view (lines 255-326), each an unchecked load, as
\* set_fields_from(&view) calls them
WrapperLoad(w, abort) ==
    IF w.dead THEN w
    ELSE IF w.len < RecordLen /\ abort
    THEN [ w EXCEPT !.dead = TRUE ]
    ELSE [ w EXCEPT !.oob = @ \cup { i \in 0..(RecordLen - 1) : i >= w.len } ]

\* the point a view shows through its getters
WrapperPoint(w) == read_from(DefaultPoint0, w.mem)

\* LasPoint0::read_from for a Point0Wrapper receiver: each value read from
\* the source goes through a setter
WrapperReadFrom(w, bytes, abort) ==
    WrapperSetFieldsFrom(w, read_from(DefaultPoint0, bytes), abort)

\* the bytes read_from has taken from the source when view w is what it
\* left: all 20, or up to the value whose setter aborted
SourceTaken(w) ==
    IF ~w.dead THEN RecordLen
    ELSE CHOOSE e \in { 4, 8, 12, 14, 15, 16, 17, 18, 20 } :
            /\ e > w.len
            /\ \A f \in { 4, 8, 12, 14, 15, 16, 17, 18, 20 } : f > w.len => e <= f

---------------------------------------------------------------------------
(* Collaborators of the codec (crate::models, crate::compressors,          *)
(* crate::decompressors, crate::las::utils), from their contract           *)

\* ArithmeticModelBuilder::new(symbols).build(): a fresh adaptive model;
\* `coded` counts the symbols it has adapted to
NewModel(symbols) == [ symbols |-> symbols, coded |-> 0 ]

\* the model after one more symbol
Adapt(model) == [ model EXCEPT !.coded = @ + 1 ]

\* IntegerCompressorBuilder / IntegerDecompressorBuilder ... build_initialized()
NewIntegerCoder(bits, contexts) == [ bits |-> bits, contexts |-> contexts, k |-> 0 ]

\* DEFAULT_COMPRESS_CONTEXTS, DEFAULT_DECOMPRESS_CONTEXTS
DefaultContext == 0

\* the context count of a builder on which .contexts() was not called
DefaultContexts == 1

RECURSIVE BitLength(_)
BitLength(n) == IF n = 0 THEN 0 ELSE 1 + BitLength(n \div 2)

\* the number of corrector bits of a residual: the least k with the
\* residual in -(2^k - 1) .. 2^k
CorrectorBits(corr) ==
    IF corr = I32Min THEN 32
    ELSE BitLength(IF corr <= 0 THEN -corr ELSE corr - 1)

\* the residual an integer coder of `bits` bits puts on the stream
Corrector(bits, pred, real) ==
    IF bits = 32 THEN WrappingSub32(real, pred)
    ELSE LET range == 2 ^ bits
             corr == real - pred
         IN  IF corr < -(range \div 2) THEN corr + range
             ELSE IF corr > (range \div 2) - 1 THEN corr - range
             ELSE corr

\* the value an integer decoder of `bits` bits returns for a residual
Corrected(bits, pred, corr) ==
    IF bits = 32 THEN WrappingAdd32(pred, corr)
    ELSE LET range == 2 ^ bits
             real == pred + corr
         IN  IF real < 0 THEN real + range
             ELSE IF real >= range THEN real - range
             ELSE real

\* utils::NUMBER_RETURN_MAP[n][r]
NUMBER_RETURN_MAP ==
    << << 15, 14, 13, 12, 11, 10,  9,  8 >>,
       << 14,  0,  1,  3,  6, 10, 10,  9 >>,
       << 13,  1,  2,  4,  7, 11, 11, 10 >>,
       << 12,  3,  4,  5,  8, 12, 12, 11 >>,
       << 11,  6,  7,  8,  9, 13, 13, 12 >>,
       << 10, 10, 11, 12, 13, 14, 14, 13 >>,
       <<  9, 10, 11, 12, 13, 14, 15, 14 >>,
       <<  8,  9, 10, 11, 12, 13, 14, 15 >> >>

\* utils::NUMBER_RETURN_LEVEL[n][r]
NUMBER_RETURN_LEVEL ==
    << << 0, 1, 2, 3, 4, 5, 6, 7 >>,
       << 1, 0, 1, 2, 3, 4, 5, 6 >>,
       << 2, 1, 0, 1, 2, 3, 4, 5 >>,
       << 3, 2, 1, 0, 1, 2, 3, 4 >>,
       << 4, 3, 2, 1, 0, 1, 2, 3 >>,
       << 5, 4, 3, 2, 1, 0, 1, 2 >>,
       << 6, 5, 4, 3, 2, 1, 0, 1 >>,
       << 7, 6, 5, 4, 3, 2, 1, 0 >> >>

\* utils::u32_zero_bit: k with its lowest bit cleared
u32_zero_bit(k) == k - (k % 2)

\* utils::StreamingMedian::new(): five samples, all zero, oldest first
NewStreamingMedian == << 0, 0, 0, 0, 0 >>

\* StreamingMedian::add: the new sample replaces the oldest
StreamingMedianAdd(w, v) == Tail(w) \o << v >>

\* StreamingMedian::get: the median of the five samples
StreamingMedianGet(w) ==
    CHOOSE v \in { w[i] : i \in 1..5 } :
        /\ Cardinality({ i \in 1..5 : w[i] < v }) <= 2
        /\ Cardinality({ i \in 1..5 : w[i] <= v }) >= 3

---------------------------------------------------------------------------
(* Calls on the coders.  An operation threads a record                     *)
(*   [ c, calls, status, ... ]                                             *)
(* through its steps: the codec, the coder calls made so far, and "ok"     *)
(* until a step panics.  A call is                                         *)
(*   [ coder, sel, pred, actual, code ]                                    *)
(* where sel is the context of an integer coder or the index of the model  *)
(* in its vector, and code is what goes on the stream.                     *)

Call(coder, sel, pred, actual, code) ==
    [ coder |-> coder, sel |-> sel, pred |-> pred, actual |-> actual, code |-> code ]

\* what the stream keeps of a call
OnStream(call) == [ coder |-> call.coder, sel |-> call.sel, code |-> call.code ]

\* the stream entry the decoder's next call meets; past the end of the
\* stream the decoder reads what is not there
NoEntry == [ coder |-> "none", sel |-> 0, code |-> 0 ]

EntryAt(stream, pos) == IF pos <= Len(stream) THEN stream[pos] ELSE NoEntry

\* a decoder call is in step with the stream when it asks the coder and
\* selector the encoder used; out of step it decodes an unrelated value
InStep(entry, coder, sel) == entry.coder = coder /\ entry.sel = sel

\* the sink or the source returns Err from one of the nine writes or reads
\* of a first-point operation
FirstPointFails == fault \in 1..Len(ValueEnds)

\* the encoder, the decoder or the integer coder returns Err from the call
\* the operation is about to make; `?` hands it to the caller
CallFails(st) == st.fail_at = Len(st.calls) + 1

\* a failed call whose error is dropped: the operation goes on with the
\* next call
CallFailedDropped(st) ==
    [ st EXCEPT !.calls = Append(@, Call("failed", 0, 0, 0, 0)) ]

CallFailed(st) == [ st EXCEPT !.status = "err" ]

\* IntegerCompressor::compress on the coder in field `name` of the codec
EncInteger(st, name, pred, real, ctx) ==
    IF st.status # "ok" THEN st
    ELSE IF CallFails(st) THEN CallFailed(st)
    ELSE [ st EXCEPT
             !.c[name].k = CorrectorBits(Corrector(st.c[name].bits, pred, real)),
             !.calls = Append(@, Call(name, ctx, pred, real,
                                      Corrector(st.c[name].bits, pred, real))) ]

\* the residual a decoder call takes from the stream: the one coded there
\* when the call is in step, an unrelated one (0 here) when it is not
CodeRead(st, coder, sel) ==
    IF InStep(EntryAt(st.stream, st.pos), coder, sel)
    THEN EntryAt(st.stream, st.pos).code
    ELSE 0

\* IntegerDecompressor::decompress on the coder in field `name`; the value
\* is left in st.val
DecInteger(st, name, pred, ctx) ==
    IF st.status # "ok" THEN st
    ELSE IF CallFails(st) THEN CallFailed(st)
    ELSE [ st EXCEPT
             !.c[name].k = CorrectorBits(CodeRead(st, name, ctx)),
             !.calls = Append(@, Call(name, ctx, pred,
                                      Corrected(st.c[name].bits, pred,
                                                CodeRead(st, name, ctx)),
                                      CodeRead(st, name, ctx))),
             !.pos = @ + 1,
             !.instep = @ /\ InStep(EntryAt(st.stream, st.pos), name, ctx),
             !.val = Corrected(st.c[name].bits, pred, CodeRead(st, name, ctx)) ]

\* self.last_point.<field> += st.val, the value just decoded
DecAddValToLast(st, field, checks) ==
    IF st.status # "ok" THEN st
    ELSE IF checks /\ AddOverflows32(st.c.last_point[field], st.val)
    THEN [ st EXCEPT !.status = "panic" ]
    ELSE [ st EXCEPT !.c.last_point[field] = WrappingAdd32(@, st.val) ]

\* self.last_point.<field> = value
DecSetLast(st, field, value) ==
    IF st.status # "ok" THEN st
    ELSE [ st EXCEPT !.c.last_point[field] = value ]

\* self.last_point.set_bit_fields(byte)
DecSetLastBitFields(st, byte) ==
    IF st.status # "ok" THEN st
    ELSE [ st EXCEPT !.c.last_point = populate_bit_fields_from(@, byte) ]

\* the record a compress operation threads through its steps: the codec,
\* the point being coded, the calls made, and the locals of the operation
EncStart(c, current_point) ==
    [ c |-> c, p |-> current_point, calls |-> << >>, status |-> "ok",
      fail_at |-> fault,
      x_diff |-> 0, y_diff |-> 0, k_bits |-> 0, cv |-> 0, n |-> 0, m |-> 0, l |-> 0 ]

\* the record a decompress operation threads through its steps
DecStart(d, stream, pos) ==
    [ c |-> d, calls |-> << >>, status |-> "ok",
      fail_at |-> fault,
      stream |-> stream, pos |-> pos, instep |-> TRUE, val |-> 0,
      x_diff |-> 0, y_diff |-> 0, k_bits |-> 0, cv |-> 0, n |-> 0, m |-> 0, l |-> 0 ]

---------------------------------------------------------------------------
(* Version 1 *)

\* median_diff with the two outcomes of its last test exchanged: right on
\* every triple that does not reach that test
median_diff_exchanged(d) ==
    IF d[1] < d[2]
    THEN IF d[2] < d[3] THEN d[2]
         ELSE IF d[1] < d[3] THEN d[3]
         ELSE d[1]
    ELSE IF d[1] < d[3] THEN d[1]
         ELSE IF d[2] < d[3] THEN d[2]
         ELSE d[3]

\* v1::median_diff, on the three differences d[1], d[2], d[3]
median_diff(d) ==
    IF d[1] < d[2]
    THEN IF d[2] < d[3] THEN d[2]
         ELSE IF d[1] < d[3] THEN d[3]
         ELSE d[1]
    ELSE IF d[1] < d[3] THEN d[1]
         ELSE IF d[2] < d[3] THEN d[3]
         ELSE d[2]

\* a vector of 256 absent models, (0..256).map(|_| None): its length and
\* the models built so far, by index
NoModels == [ len |-> 256, built |-> << >> ]

\* the vector with the model at index idx set to `model`
WithModel(models, idx, model) ==
    [ models EXCEPT !.built =
        [ i \in (DOMAIN models.built) \cup {idx} |->
            IF i = idx THEN model ELSE models.built[i] ] ]

\* v1::LasPoint0Compressor::new
V1CompressorNew ==
    [ last_point |-> DefaultPoint0,
      last_x_diffs |-> << 0, 0, 0 >>,
      last_y_diffs |-> << 0, 0, 0 >>,
      last_incr |-> 0,
      ic_dx |-> NewIntegerCoder(32, DefaultContexts),
      ic_dy |-> NewIntegerCoder(32, 20),
      ic_dz |-> NewIntegerCoder(32, 20),
      ic_intensity |-> NewIntegerCoder(16, DefaultContexts),
      ic_scan_angle_rank |-> NewIntegerCoder(8, 2),
      ic_point_source_id |-> NewIntegerCoder(16, DefaultContexts),
      changed_values_model |-> NewModel(64),
      bit_byte_models |-> NoModels,
      classification_models |-> NoModels,
      user_data_models |-> NoModels ]

\* v1::LasPoint0Decompressor::new
V1DecompressorNew ==
    [ last_point |-> DefaultPoint0,
      last_x_diffs |-> << 0, 0, 0 >>,
      last_y_diffs |-> << 0, 0, 0 >>,
      last_incr |-> 0,
      ic_dx |-> NewIntegerCoder(32, DefaultContexts),
      ic_dy |-> NewIntegerCoder(32, 20),
      ic_dz |-> NewIntegerCoder(32, 20),
      ic_intensity |-> NewIntegerCoder(16, DefaultContexts),
      ic_scan_angle_rank |-> NewIntegerCoder(8, 2),
      ic_point_source_id |-> NewIntegerCoder(16, DefaultContexts),
      changed_values_model |-> NewModel(64),
      bit_byte_models |-> NoModels,
      classification_models |-> NoModels,
      user_data_models |-> NoModels ]

\* a model built anew at every use: what was there is replaced
GetOrInsertAnew(models, idx) == NewModel(256)

\* the model of a lazy vector at index idx, created when absent
\* (get_or_insert in the compressor, is_none / Some in the decompressor)
GetOrInsert(models, idx) ==
    IF idx \in DOMAIN models.built THEN models.built[idx] ELSE NewModel(256)

\* encode_symbol on the model of lazy vector `vec` at index idx
V1EncLazy(st, vec, idx, sym) ==
    IF st.status # "ok" THEN st
    ELSE IF CallFails(st)
    THEN [ CallFailed(st) EXCEPT !.c[vec] = WithModel(@, idx, GetOrInsert(@, idx)) ]
    ELSE [ st EXCEPT !.c[vec] = WithModel(@, idx, Adapt(GetOrInsert(@, idx))),
                     !.calls = Append(@, Call(vec, idx, 0, sym, sym)) ]

\* decode_symbol on the model of lazy vector `vec` at index idx; the symbol
\* is left in st.val
V1DecLazy(st, vec, idx) ==
    IF st.status # "ok" THEN st
    ELSE IF CallFails(st)
    THEN [ CallFailed(st) EXCEPT !.c[vec] = WithModel(@, idx, GetOrInsert(@, idx)) ]
    ELSE [ st EXCEPT !.c[vec] = WithModel(@, idx, Adapt(GetOrInsert(@, idx))),
                     !.calls = Append(@, Call(vec, idx, 0, CodeRead(st, vec, idx),
                                              CodeRead(st, vec, idx))),
                     !.pos = @ + 1,
                     !.instep = @ /\ InStep(EntryAt(st.stream, st.pos), vec, idx),
                     !.val = CodeRead(st, vec, idx) ]

\* the changed_values byte with the v2 bit positions (bit_fields on bit5,
\* intensity on bit4): what the v1 bitmap must not be
V1ChangedValuesV2Positions(last_point, current_point) ==
      BoolAsInt(bit_fields_to_byte(last_point) # bit_fields_to_byte(current_point)) * 32
    + BoolAsInt(last_point.intensity # current_point.intensity) * 16
    + BoolAsInt(last_point.classification # current_point.classification) * 8
    + BoolAsInt(last_point.scan_angle_rank # current_point.scan_angle_rank) * 4
    + BoolAsInt(last_point.user_data # current_point.user_data) * 2
    + BoolAsInt(last_point.point_source_id # current_point.point_source_id)

\* the changed_values byte of the v1 compressor (lines 803-811)
V1ChangedValues(last_point, current_point) ==
      BoolAsInt(last_point.intensity # current_point.intensity) * 32
    + BoolAsInt(bit_fields_to_byte(last_point) # bit_fields_to_byte(current_point)) * 16
    + BoolAsInt(last_point.classification # current_point.classification) * 8
    + BoolAsInt(last_point.scan_angle_rank # current_point.scan_angle_rank) * 4
    + BoolAsInt(last_point.user_data # current_point.user_data) * 2
    + BoolAsInt(last_point.point_source_id # current_point.point_source_id)

\* a window of two: last_incr goes back to 0 one entry early
V1NextIncrOfTwo(last_incr) == IF last_incr + 1 > 1 THEN 0 ELSE last_incr + 1

\* last_incr += 1; if last_incr > 2 { last_incr = 0 }
V1NextIncr(last_incr) == IF last_incr + 1 > 2 THEN 0 ELSE last_incr + 1

\* the context capped at 20, the number of contexts, instead of 19
V1CoordContextOfTwenty(k_bits) == IF k_bits < 20 THEN k_bits ELSE 20

\* if k_bits < 19 { k_bits } else { 19 }
V1CoordContext(k_bits) == IF k_bits < 19 THEN k_bits ELSE 19

\* lines 782-783: the two differences, a panic when one overflows in a
\* build that checks
V1EncDiffs(st, checks) ==
    IF checks /\ ( \/ SubOverflows32(st.p.x, st.c.last_point.x)
                   \/ SubOverflows32(st.p.y, st.c.last_point.y) )
    THEN [ st EXCEPT !.status = "panic" ]
    ELSE [ st EXCEPT !.x_diff = WrappingSub32(st.p.x, st.c.last_point.x),
                     !.y_diff = WrappingSub32(st.p.y, st.c.last_point.y) ]

\* lines 785-786
V1EncDx(st) ==
    EncInteger(st, "ic_dx", median_diff(st.c.last_x_diffs), st.x_diff, DefaultContext)

\* lines 787-793
V1EncDy(st) ==
    EncInteger(st, "ic_dy", median_diff(st.c.last_y_diffs), st.y_diff,
               V1CoordContext(st.c.ic_dx.k))

\* line 795
V1KBits(st) == [ st EXCEPT !.k_bits = (st.c.ic_dx.k + st.c.ic_dy.k) \div 2 ]

\* lines 796-801
V1EncZ(st) ==
    EncInteger(st, "ic_dz", st.c.last_point.z, st.p.z, V1CoordContext(st.k_bits))

\* lines 803-813
V1EncChangedValues(st) ==
    IF st.status # "ok" THEN st
    ELSE IF CallFails(st) THEN CallFailed(st)
    ELSE [ st EXCEPT
             !.cv = V1ChangedValues(st.c.last_point, st.p),
             !.c.changed_values_model = Adapt(@),
             !.calls = Append(@, Call("changed_values", 0, 0,
                                      V1ChangedValues(st.c.last_point, st.p),
                                      V1ChangedValues(st.c.last_point, st.p))) ]

\* lines 816-823
V1EncIntensity(st) ==
    IF BitSet(st.cv, 32)
    THEN EncInteger(st, "ic_intensity", st.c.last_point.intensity,
                    st.p.intensity, DefaultContext)
    ELSE st

\* lines 825-829
V1EncBitFields(st) ==
    IF BitSet(st.cv, 16)
    THEN V1EncLazy(st, "bit_byte_models", bit_fields_to_byte(st.c.last_point),
                   bit_fields_to_byte(st.p))
    ELSE st

\* lines 831-836
V1EncClassification(st) ==
    IF BitSet(st.cv, 8)
    THEN V1EncLazy(st, "classification_models", st.c.last_point.classification,
                   st.p.classification)
    ELSE st

\* lines 838-845
V1EncScanAngleRank(st) ==
    IF BitSet(st.cv, 4)
    THEN EncInteger(st, "ic_scan_angle_rank", st.c.last_point.scan_angle_rank,
                    st.p.scan_angle_rank, BoolAsInt(st.k_bits < 3))
    ELSE st

\* lines 847-851
V1EncUserData(st) ==
    IF BitSet(st.cv, 2)
    THEN V1EncLazy(st, "user_data_models", st.c.last_point.user_data,
                   st.p.user_data)
    ELSE st

\* lines 853-860
V1EncPointSourceId(st) ==
    IF BitSet(st.cv, 1)
    THEN EncInteger(st, "ic_point_source_id", st.c.last_point.point_source_id,
                    st.p.point_source_id, DefaultContext)
    ELSE st

\* lines 862-868
V1EncRecord(st) ==
    IF st.status # "ok" THEN st
    ELSE [ st EXCEPT
             !.c.last_x_diffs[st.c.last_incr + 1] = st.x_diff,
             !.c.last_y_diffs[st.c.last_incr + 1] = st.y_diff,
             !.c.last_incr = V1NextIncr(@),
             !.c.last_point = Point0SetFieldsFrom(@, st.p) ]

\* compress_field_with with the bit_fields byte coded ahead of the
\* intensity
V1CompressFieldWithBitFieldsFirst(c, current_point, checks) ==
    V1EncRecord(V1EncPointSourceId(V1EncUserData(V1EncScanAngleRank(
    V1EncClassification(V1EncIntensity(V1EncBitFields(V1EncChangedValues(
    V1EncZ(V1KBits(V1EncDy(V1EncDx(
    V1EncDiffs(EncStart(c, current_point), checks)))))))))))))

\* v1::LasPoint0Compressor::compress_field_with.  `checks`: the build
\* panics on arithmetic overflow (else it wraps).
V1CompressFieldWith(c, current_point, checks) ==
    V1EncRecord(V1EncPointSourceId(V1EncUserData(V1EncScanAngleRank(
    V1EncClassification(V1EncBitFields(V1EncIntensity(V1EncChangedValues(
    V1EncZ(V1KBits(V1EncDy(V1EncDx(
    V1EncDiffs(EncStart(c, current_point), checks)))))))))))))

\* lines 626-629
V1DecDx(st, checks) ==
    DecAddValToLast(
        DecInteger(st, "ic_dx", median_diff(st.c.last_x_diffs), DefaultContext),
        "x", checks)

\* let x_diff = ...
V1KeepXDiff(st) == [ st EXCEPT !.x_diff = st.val ]

\* lines 631-637
V1DecDy(st, checks) ==
    DecAddValToLast(
        DecInteger(st, "ic_dy", median_diff(st.c.last_y_diffs),
                   V1CoordContext(st.c.ic_dx.k)),
        "y", checks)

\* let y_diff = ...
V1KeepYDiff(st) == [ st EXCEPT !.y_diff = st.val ]

\* the value just decoded, stored in last_point.<field>
DecStoreVal(st, field) == DecSetLast(st, field, st.val)

\* lines 639-643
V1DecZ(st) ==
    DecStoreVal(
        DecInteger(st, "ic_dz", st.c.last_point.z, V1CoordContext(st.k_bits)),
        "z")

\* line 645
V1DecChangedValues(st) ==
    IF st.status # "ok" THEN st
    ELSE IF CallFails(st) THEN CallFailed(st)
    ELSE [ st EXCEPT
             !.cv = CodeRead(st, "changed_values", 0),
             !.c.changed_values_model = Adapt(@),
             !.calls = Append(@, Call("changed_values", 0, 0,
                                      CodeRead(st, "changed_values", 0),
                                      CodeRead(st, "changed_values", 0))),
             !.pos = @ + 1,
             !.instep = @ /\ InStep(EntryAt(st.stream, st.pos), "changed_values", 0),
             !.val = CodeRead(st, "changed_values", 0) ]

\* the value just decoded, cast and stored in last_point
DecStoreU16(st, field) == DecSetLast(st, field, AsU16(st.val))
DecStoreU8(st, field) == DecSetLast(st, field, AsU8(st.val))
DecStoreI8(st, field) == DecSetLast(st, field, AsI8(st.val))
DecStoreBitFields(st) == DecSetLastBitFields(st, AsU8(st.val))

\* lines 648-654
V1DecIntensity(st) ==
    IF BitSet(st.cv, 32)
    THEN DecStoreU16(
            DecInteger(st, "ic_intensity", st.c.last_point.intensity, DefaultContext),
            "intensity")
    ELSE st

\* lines 656-663
V1DecBitFields(st) ==
    IF BitSet(st.cv, 16)
    THEN DecStoreBitFields(
            V1DecLazy(st, "bit_byte_models", bit_fields_to_byte(st.c.last_point)))
    ELSE st

\* lines 665-674
V1DecClassification(st) ==
    IF BitSet(st.cv, 8)
    THEN DecStoreU8(
            V1DecLazy(st, "classification_models", st.c.last_point.classification),
            "classification")
    ELSE st

\* lines 676-683
V1DecScanAngleRank(st) ==
    IF BitSet(st.cv, 4)
    THEN DecStoreI8(
            DecInteger(st, "ic_scan_angle_rank", st.c.last_point.scan_angle_rank,
                       BoolAsInt(st.k_bits < 3)),
            "scan_angle_rank")
    ELSE st

\* lines 685-692
V1DecUserData(st) ==
    IF BitSet(st.cv, 2)
    THEN DecStoreU8(
            V1DecLazy(st, "user_data_models", st.c.last_point.user_data),
            "user_data")
    ELSE st

\* lines 694-701
V1DecPointSourceId(st) ==
    IF BitSet(st.cv, 1)
    THEN DecStoreU16(
            DecInteger(st, "ic_point_source_id", st.c.last_point.point_source_id,
                       DefaultContext),
            "point_source_id")
    ELSE st

\* the differences recorded after last_incr has advanced: one slot further
\* than the compressor's
V1DecRecordAfterIncr(st) ==
    IF st.status # "ok" THEN st
    ELSE [ st EXCEPT
             !.c.last_x_diffs[V1NextIncr(st.c.last_incr) + 1] = st.x_diff,
             !.c.last_y_diffs[V1NextIncr(st.c.last_incr) + 1] = st.y_diff,
             !.c.last_incr = V1NextIncr(@) ]

\* lines 704-710
V1DecRecord(st) ==
    IF st.status # "ok" THEN st
    ELSE [ st EXCEPT
             !.c.last_x_diffs[st.c.last_incr + 1] = st.x_diff,
             !.c.last_y_diffs[st.c.last_incr + 1] = st.y_diff,
             !.c.last_incr = V1NextIncr(@) ]

\* v1::LasPoint0Decompressor::decompress_field_with up to the final
\* current_point.set_fields_from(&self.last_point), which the caller's
\* record type performs
V1DecompressFieldWith(d, stream, pos, checks) ==
    V1DecRecord(V1DecPointSourceId(V1DecUserData(V1DecScanAngleRank(
    V1DecClassification(V1DecBitFields(V1DecIntensity(V1DecChangedValues(
    V1DecZ(V1KBits(V1KeepYDiff(V1DecDy(V1KeepXDiff(V1DecDx(
    DecStart(d, stream, pos), checks)), checks))))))))))))

\* v1::LasPoint0Compressor::init_first_point for a Point0: the bytes for
\* the sink and the codec afterwards
V1CompressInitFirstPoint(c, first_point) ==
    IF FirstPointFails
    THEN [ bytes |-> write_to_failing(first_point, fault), c |-> c,
           calls |-> << >>, status |-> "err" ]
    ELSE [ bytes |-> write_to(first_point),
           c |-> [ c EXCEPT !.last_point = Point0SetFieldsFrom(@, first_point) ],
           calls |-> << >>, status |-> "ok" ]

\* init_first_point that copies first_point into last_point whether
\* read_from succeeded or not
V1DecompressInitFirstPointSeedingAnyway(d, bytes) ==
    IF FirstPointFails
    THEN [ point |-> read_from_failing(DefaultPoint0, bytes, fault),
           c |-> [ d EXCEPT !.last_point =
                     Point0SetFieldsFrom(@, read_from_failing(DefaultPoint0, bytes,
                                                              fault)) ],
           calls |-> << >>, status |-> "err", nbytes |-> BytesBefore(fault) ]
    ELSE LET first_point == read_from(DefaultPoint0, bytes)
         IN  [ point |-> first_point,
               c |-> [ d EXCEPT !.last_point = Point0SetFieldsFrom(@, first_point) ],
               calls |-> << >>, status |-> "ok", nbytes |-> RecordLen ]

\* v1::LasPoint0Decompressor::init_first_point with a Point0 to fill, given
\* the 20 bytes the source delivers
V1DecompressInitFirstPoint(d, bytes) ==
    IF FirstPointFails
    THEN [ point |-> read_from_failing(DefaultPoint0, bytes, fault), c |-> d,
           calls |-> << >>, status |-> "err", nbytes |-> BytesBefore(fault) ]
    ELSE LET first_point == read_from(DefaultPoint0, bytes)
         IN  [ point |-> first_point,
               c |-> [ d EXCEPT !.last_point = Point0SetFieldsFrom(@, first_point) ],
               calls |-> << >>, status |-> "ok", nbytes |-> RecordLen ]

---------------------------------------------------------------------------
(* Version 2 *)

\* from_points with the intensity compared to the previous point's rather
\* than to last_intensity[m]
from_points_against_last_point(current, last_pt, last_intensity) ==
      BoolAsInt(\/ last_pt.return_number # current.return_number
                \/ last_pt.number_of_returns_of_given_pulse
                       # current.number_of_returns_of_given_pulse
                \/ last_pt.scan_direction_flag # current.scan_direction_flag
                \/ last_pt.edge_of_flight_line # current.edge_of_flight_line) * 32
    + BoolAsInt(last_pt.intensity # current.intensity) * 16
    + BoolAsInt(last_pt.classification # current.classification) * 8
    + BoolAsInt(last_pt.scan_angle_rank # current.scan_angle_rank) * 4
    + BoolAsInt(last_pt.user_data # current.user_data) * 2
    + BoolAsInt(last_pt.point_source_id # current.point_source_id)

\* Point10ChangedValues::from_points
from_points(current, last_pt, last_intensity) ==
    LET bit_fields_changed ==
            \/ last_pt.return_number # current.return_number
            \/ last_pt.number_of_returns_of_given_pulse
                   # current.number_of_returns_of_given_pulse
            \/ last_pt.scan_direction_flag # current.scan_direction_flag
            \/ last_pt.edge_of_flight_line # current.edge_of_flight_line
        intensity_changed == last_intensity # current.intensity
        classification_changed == last_pt.classification # current.classification
        scan_angle_rank_changed == last_pt.scan_angle_rank # current.scan_angle_rank
        user_data_changed == last_pt.user_data # current.user_data
        point_source_id_changed == last_pt.point_source_id # current.point_source_id
    IN    BoolAsInt(bit_fields_changed) * 32
        + BoolAsInt(intensity_changed) * 16
        + BoolAsInt(classification_changed) * 8
        + BoolAsInt(scan_angle_rank_changed) * 4
        + BoolAsInt(user_data_changed) * 2
        + BoolAsInt(point_source_id_changed)

\* Point10ChangedValues accessors
bit_fields_changed(value) == BitSet(value, 32)
intensity_changed(value) == BitSet(value, 16)
classification_changed(value) == BitSet(value, 8)
scan_angle_rank_changed(value) == BitSet(value, 4)
user_data_changed(value) == BitSet(value, 2)
point_source_id_changed(value) == BitSet(value, 1)

\* a vector of `len` models built up front: its length and, by index, the
\* models that have coded a symbol (the others are as built)
BuiltModels(len) == [ len |-> len, built |-> << >> ]

\* v2::Common::new
CommonNew ==
    [ last_intensity |-> [ i \in 0..15 |-> 0 ],
      last_x_diff_median |-> [ i \in 0..15 |-> NewStreamingMedian ],
      last_y_diff_median |-> [ i \in 0..15 |-> NewStreamingMedian ],
      last_height |-> [ i \in 0..7 |-> 0 ],
      changed_values |-> NewModel(64),
      scan_angle_rank |-> BuiltModels(2),
      bit_byte |-> BuiltModels(256),
      classification |-> BuiltModels(256),
      user_data |-> BuiltModels(256) ]

\* v2::LasPoint0Compressor::new
V2CompressorNew ==
    [ last_point |-> DefaultPoint0,
      ic_intensity |-> NewIntegerCoder(16, 4),
      ic_point_source_id |-> NewIntegerCoder(16, DefaultContexts),
      ic_dx |-> NewIntegerCoder(32, 2),
      ic_dy |-> NewIntegerCoder(32, 22),
      ic_z |-> NewIntegerCoder(32, 20),
      common |-> CommonNew ]

\* v2::LasPoint0Decompressor::new
V2DecompressorNew ==
    [ last_point |-> DefaultPoint0,
      ic_intensity |-> NewIntegerCoder(16, 4),
      ic_point_source_id |-> NewIntegerCoder(16, DefaultContexts),
      ic_dx |-> NewIntegerCoder(32, 2),
      ic_dy |-> NewIntegerCoder(32, 22),
      ic_z |-> NewIntegerCoder(32, 20),
      common |-> CommonNew ]

\* encode_symbol on the model at index idx of vector `vec` of common
V2EncSymbol(st, vec, idx, sym) ==
    IF st.status # "ok" THEN st
    ELSE IF CallFails(st) THEN CallFailed(st)
    ELSE [ st EXCEPT
             !.c.common[vec] = WithModel(@, idx, Adapt(GetOrInsert(@, idx))),
             !.calls = Append(@, Call(vec, idx, 0, sym, sym)) ]

\* decode_symbol on the model at index idx of vector `vec` of common; the
\* symbol is left in st.val
V2DecSymbol(st, vec, idx) ==
    IF st.status # "ok" THEN st
    ELSE IF CallFails(st) THEN CallFailed(st)
    ELSE [ st EXCEPT
             !.c.common[vec] = WithModel(@, idx, Adapt(GetOrInsert(@, idx))),
             !.calls = Append(@, Call(vec, idx, 0, CodeRead(st, vec, idx),
                                      CodeRead(st, vec, idx))),
             !.pos = @ + 1,
             !.instep = @ /\ InStep(EntryAt(st.stream, st.pos), vec, idx),
             !.val = CodeRead(st, vec, idx) ]

\* the n, m and l of a point: the two table look-ups are bounds-checked
Buckets(st, pt) ==
    IF st.status # "ok" THEN st
    ELSE IF pt.number_of_returns_of_given_pulse > 7 \/ pt.return_number > 7
    THEN [ st EXCEPT !.status = "panic" ]
    ELSE [ st EXCEPT
             !.n = pt.number_of_returns_of_given_pulse,
             !.m = NUMBER_RETURN_MAP[pt.number_of_returns_of_given_pulse + 1]
                                    [pt.return_number + 1],
             !.l = NUMBER_RETURN_LEVEL[pt.number_of_returns_of_given_pulse + 1]
                                      [pt.return_number + 1] ]

\* lines 1109-1114
V2EncBuckets(st) == Buckets(st, st.p)

\* if m < 3 { m } else { 3 }
V2IntensityContext(m) == IF m < 3 THEN m ELSE 3

\* the context from k_bits with no upper limit
V2CoordContextUnclamped(n, k_bits, limit) ==
    BoolAsInt(n = 1) + u32_zero_bit(k_bits)

\* the context from k_bits itself, lowest bit included
V2CoordContextOfAllBits(n, k_bits, limit) ==
    BoolAsInt(n = 1) + (IF k_bits < limit THEN k_bits ELSE limit)

\* (n == 1) + if k_bits < limit { u32_zero_bit(k_bits) } else { limit }
V2CoordContext(n, k_bits, limit) ==
    BoolAsInt(n = 1) + (IF k_bits < limit THEN u32_zero_bit(k_bits) ELSE limit)

\* lines 1116-1123
V2EncChangedValues(st) ==
    IF st.status # "ok" THEN st
    ELSE IF CallFails(st) THEN CallFailed(st)
    ELSE [ st EXCEPT
             !.cv = from_points(st.p, st.c.last_point, st.c.common.last_intensity[st.m]),
             !.c.common.changed_values = Adapt(@),
             !.calls = Append(@, Call("changed_values", 0, 0,
                from_points(st.p, st.c.last_point, st.c.common.last_intensity[st.m]),
                from_points(st.p, st.c.last_point, st.c.common.last_intensity[st.m]))) ]

\* lines 1125-1132
V2EncBitFields(st) ==
    IF bit_fields_changed(st.cv)
    THEN V2EncSymbol(st, "bit_byte", bit_fields_to_byte(st.c.last_point),
                     bit_fields_to_byte(st.p))
    ELSE st

\* the intensity stored in every entry of last_intensity
SetLastIntensityEverywhere(st, value) ==
    IF st.status # "ok" THEN st
    ELSE [ st EXCEPT !.c.common.last_intensity = [ j \in 0..15 |-> value ] ]

\* self.common.last_intensity[m] = value
SetLastIntensity(st, value) ==
    IF st.status # "ok" THEN st
    ELSE [ st EXCEPT !.c.common.last_intensity[st.m] = value ]

\* lines 1134-1142
V2EncIntensity(st) ==
    IF intensity_changed(st.cv)
    THEN SetLastIntensity(
            EncInteger(st, "ic_intensity", st.c.common.last_intensity[st.m],
                       st.p.intensity, V2IntensityContext(st.m)),
            st.p.intensity)
    ELSE st

\* lines 1144-1153
V2EncClassification(st) ==
    IF classification_changed(st.cv)
    THEN V2EncSymbol(st, "classification", st.c.last_point.classification,
                     st.p.classification)
    ELSE st

\* lines 1155-1166: the i8 subtraction panics on overflow in a build that
\* checks, else wraps; then `as u8`
V2EncScanAngleRank(st, checks) ==
    IF st.status # "ok" \/ ~scan_angle_rank_changed(st.cv) THEN st
    ELSE IF checks /\ ~InI8(st.p.scan_angle_rank - st.c.last_point.scan_angle_rank)
    THEN [ st EXCEPT !.status = "panic" ]
    ELSE V2EncSymbol(st, "scan_angle_rank", BoolAsInt(st.p.scan_direction_flag),
                     AsU8(st.p.scan_angle_rank - st.c.last_point.scan_angle_rank))

\* lines 1168-1177
V2EncUserData(st) ==
    IF user_data_changed(st.cv)
    THEN V2EncSymbol(st, "user_data", st.c.last_point.user_data, st.p.user_data)
    ELSE st

\* lines 1179-1186
V2EncPointSourceId(st) ==
    IF point_source_id_changed(st.cv)
    THEN EncInteger(st, "ic_point_source_id", st.c.last_point.point_source_id,
                    st.p.point_source_id, 0)
    ELSE st

\* line 1190 / 1203: let diff = current_point.<field>() - self.last_point.<field>
V2EncDiff(st, field, checks) ==
    IF st.status # "ok" THEN st
    ELSE IF checks /\ SubOverflows32(st.p[field], st.c.last_point[field])
    THEN [ st EXCEPT !.status = "panic" ]
    ELSE [ st EXCEPT !.x_diff = WrappingSub32(st.p[field], st.c.last_point[field]) ]

\* the value added twice to the median of bucket m
MedianAddTwice(st, medians, value) ==
    IF st.status # "ok" THEN st
    ELSE [ st EXCEPT !.c.common[medians][st.m] =
                         StreamingMedianAdd(StreamingMedianAdd(@, value), value) ]

\* self.common.<medians>[m].add(value)
MedianAdd(st, medians, value) ==
    IF st.status # "ok" THEN st
    ELSE [ st EXCEPT !.c.common[medians][st.m] = StreamingMedianAdd(@, value) ]

\* lines 1191-1193, given diff in st.x_diff
V2EncDx(st) ==
    MedianAdd(
        EncInteger(st, "ic_dx",
                   StreamingMedianGet(st.c.common.last_x_diff_median[st.m]),
                   st.x_diff, BoolAsInt(st.n = 1)),
        "last_x_diff_median", st.x_diff)

\* lines 1189-1193
V2EncX(st, checks) == V2EncDx(V2EncDiff(st, "x", checks))

\* lines 1204-1216, given diff in st.x_diff
V2EncDy(st) ==
    MedianAdd(
        EncInteger(st, "ic_dy",
                   StreamingMedianGet(st.c.common.last_y_diff_median[st.m]),
                   st.x_diff, V2CoordContext(st.n, st.c.ic_dx.k, 20)),
        "last_y_diff_median", st.x_diff)

\* lines 1196-1216
V2EncY(st, checks) == V2EncDy(V2EncDiff(st, "y", checks))

\* the z stored in every entry of last_height
SetLastHeightEverywhere(st, value) ==
    IF st.status # "ok" THEN st
    ELSE [ st EXCEPT !.c.common.last_height = [ j \in 0..7 |-> value ] ]

\* self.common.last_height[l] = value
SetLastHeight(st, value) ==
    IF st.status # "ok" THEN st
    ELSE [ st EXCEPT !.c.common.last_height[st.l] = value ]

\* lines 1219-1232
V2EncZ(st) ==
    SetLastHeight(
        EncInteger(st, "ic_z", st.c.common.last_height[st.l], st.p.z,
                   V2CoordContext(st.n, (st.c.ic_dx.k + st.c.ic_dy.k) \div 2, 18)),
        st.p.z)

\* line 1233
V2EncRecord(st) ==
    IF st.status # "ok" THEN st
    ELSE [ st EXCEPT !.c.last_point = Point0SetFieldsFrom(@, st.p) ]

\* v2::LasPoint0Compressor::compress_field_with
V2CompressFieldWith(c, current_point, checks) ==
    V2EncRecord(V2EncZ(V2EncY(V2EncX(
        V2EncPointSourceId(V2EncUserData(V2EncScanAngleRank(
            V2EncClassification(V2EncIntensity(V2EncBitFields(V2EncChangedValues(
                V2EncBuckets(EncStart(c, current_point)))))),
            checks))),
        checks), checks)))

\* init_first_point that also records the first point's z in last_height[l]
V2CompressInitFirstPointSeedingHeight(c, first_point) ==
    IF FirstPointFails
    THEN [ bytes |-> write_to_failing(first_point, fault), c |-> c,
           calls |-> << >>, status |-> "err" ]
    ELSE [ bytes |-> write_to(first_point),
           c |-> [ c EXCEPT
                     !.last_point = Point0SetFieldsFrom(@, first_point),
                     !.common.last_height[
                         NUMBER_RETURN_LEVEL[first_point.number_of_returns_of_given_pulse + 1]
                                            [first_point.return_number + 1]] =
                         first_point.z ],
           calls |-> << >>, status |-> "ok" ]

\* init_first_point that also records the first point's intensity in
\* last_intensity[m]
V2CompressInitFirstPointSeeded(c, first_point) ==
    [ bytes |-> write_to(first_point),
      c |-> [ c EXCEPT
                !.last_point = Point0SetFieldsFrom(@, first_point),
                !.common.last_intensity[
                    NUMBER_RETURN_MAP[first_point.number_of_returns_of_given_pulse + 1]
                                     [first_point.return_number + 1]] =
                    first_point.intensity ],
      calls |-> << >>, status |-> "ok" ]

\* v2::LasPoint0Compressor::init_first_point for a Point0
V2CompressInitFirstPoint(c, first_point) ==
    IF FirstPointFails
    THEN [ bytes |-> write_to_failing(first_point, fault), c |-> c,
           calls |-> << >>, status |-> "err" ]
    ELSE [ bytes |-> write_to(first_point),
           c |-> [ c EXCEPT !.last_point = Point0SetFieldsFrom(@, first_point) ],
           calls |-> << >>, status |-> "ok" ]

\* the decompressor's init_first_point without line 1306: last_point keeps
\* the intensity of the first point
V2DecompressInitFirstPointKeepingIntensity(d, bytes) ==
    IF FirstPointFails
    THEN [ point |-> read_from_failing(DefaultPoint0, bytes, fault), c |-> d,
           calls |-> << >>, status |-> "err", nbytes |-> BytesBefore(fault) ]
    ELSE [ point |-> read_from(DefaultPoint0, bytes),
           c |-> [ d EXCEPT !.last_point =
                     Point0SetFieldsFrom(@, read_from(DefaultPoint0, bytes)) ],
           calls |-> << >>, status |-> "ok", nbytes |-> RecordLen ]

\* v2::LasPoint0Decompressor::init_first_point with a Point0 to fill, given
\* the 20 bytes the source delivers
V2DecompressInitFirstPoint(d, bytes) ==
    IF FirstPointFails
    THEN [ point |-> read_from_failing(DefaultPoint0, bytes, fault), c |-> d,
           calls |-> << >>, status |-> "err", nbytes |-> BytesBefore(fault) ]
    ELSE [ point |-> read_from(DefaultPoint0, bytes),
           c |-> [ d EXCEPT !.last_point =
                     [ Point0SetFieldsFrom(@, read_from(DefaultPoint0, bytes))
                         EXCEPT !.intensity = 0 ] ],
           calls |-> << >>, status |-> "ok", nbytes |-> RecordLen ]

\* lines 1315-1317
V2DecChangedValues(st) ==
    IF st.status # "ok" THEN st
    ELSE IF CallFails(st) THEN CallFailed(st)
    ELSE [ st EXCEPT
             !.cv = CodeRead(st, "changed_values", 0),
             !.c.common.changed_values = Adapt(@),
             !.calls = Append(@, Call("changed_values", 0, 0,
                                      CodeRead(st, "changed_values", 0),
                                      CodeRead(st, "changed_values", 0))),
             !.pos = @ + 1,
             !.instep = @ /\ InStep(EntryAt(st.stream, st.pos), "changed_values", 0),
             !.val = CodeRead(st, "changed_values", 0) ]

\* lines 1328-1334
V2DecBitFields(st) ==
    IF bit_fields_changed(st.cv)
    THEN DecStoreBitFields(
            V2DecSymbol(st, "bit_byte", bit_fields_to_byte(st.c.last_point)))
    ELSE st

\* lines 1336-1341 and 1395-1398
V2DecBuckets(st) == Buckets(st, st.c.last_point)

\* the intensity just stored in last_point, stored in last_intensity[m]
KeepLastIntensity(st) == SetLastIntensity(st, st.c.last_point.intensity)

\* the intensity step without its else branch: an unchanged intensity is
\* whatever last_point held
V2DecIntensityOfLastPoint(st) ==
    IF st.cv = 0 THEN st
    ELSE IF intensity_changed(st.cv)
    THEN KeepLastIntensity(DecStoreU16(
            DecInteger(st, "ic_intensity", st.c.common.last_intensity[st.m],
                       V2IntensityContext(st.m)),
            "intensity"))
    ELSE st

\* the intensity step that stores a decoded intensity in last_point only
V2DecIntensityUnkept(st) ==
    IF st.cv = 0 THEN st
    ELSE IF intensity_changed(st.cv)
    THEN DecStoreU16(
            DecInteger(st, "ic_intensity", st.c.common.last_intensity[st.m],
                       V2IntensityContext(st.m)),
            "intensity")
    ELSE DecSetLast(st, "intensity", st.c.common.last_intensity[st.m])

\* lines 1343-1354; nothing of it runs when changed_value is 0
V2DecIntensity(st) ==
    IF st.cv = 0 THEN st
    ELSE IF intensity_changed(st.cv)
    THEN KeepLastIntensity(DecStoreU16(
            DecInteger(st, "ic_intensity", st.c.common.last_intensity[st.m],
                       V2IntensityContext(st.m)),
            "intensity"))
    ELSE DecSetLast(st, "intensity", st.c.common.last_intensity[st.m])

\* the classification step that clears an unchanged classification
V2DecClassificationOrZero(st) ==
    IF classification_changed(st.cv)
    THEN DecStoreU8(
            V2DecSymbol(st, "classification", st.c.last_point.classification),
            "classification")
    ELSE DecSetLast(st, "classification", 0)

\* lines 1356-1364
V2DecClassification(st) ==
    IF classification_changed(st.cv)
    THEN DecStoreU8(
            V2DecSymbol(st, "classification", st.c.last_point.classification),
            "classification")
    ELSE st

\* lines 1372-1373: val + self.last_point.scan_angle_rank on i8, val the
\* symbol just decoded `as i8`
DecAddScanAngleRank(st, checks) ==
    IF st.status # "ok" THEN st
    ELSE IF checks /\ ~InI8(AsI8(st.val) + st.c.last_point.scan_angle_rank)
    THEN [ st EXCEPT !.status = "panic" ]
    ELSE [ st EXCEPT !.c.last_point.scan_angle_rank = AsI8(AsI8(st.val) + @) ]

\* lines 1366-1374
V2DecScanAngleRank(st, checks) ==
    IF scan_angle_rank_changed(st.cv)
    THEN DecAddScanAngleRank(
            V2DecSymbol(st, "scan_angle_rank",
                        BoolAsInt(st.c.last_point.scan_direction_flag)),
            checks)
    ELSE st

\* the user_data symbol decoded with the model the classification selects
V2DecUserDataByClassification(st) ==
    IF user_data_changed(st.cv)
    THEN DecStoreU8(V2DecSymbol(st, "user_data", st.c.last_point.classification),
                    "user_data")
    ELSE st

\* lines 1376-1384
V2DecUserData(st) ==
    IF user_data_changed(st.cv)
    THEN DecStoreU8(V2DecSymbol(st, "user_data", st.c.last_point.user_data),
                    "user_data")
    ELSE st

\* lines 1386-1393
V2DecPointSourceId(st) ==
    IF point_source_id_changed(st.cv)
    THEN DecStoreU16(
            DecInteger(st, "ic_point_source_id", st.c.last_point.point_source_id, 0),
            "point_source_id")
    ELSE st

\* the difference just decoded, added to the median of bucket m
MedianAddVal(st, medians) == MedianAdd(st, medians, st.val)

\* lines 1402-1414
V2DecX(st, checks) ==
    MedianAddVal(DecAddValToLast(
        DecInteger(st, "ic_dx",
                   StreamingMedianGet(st.c.common.last_x_diff_median[st.m]),
                   BoolAsInt(st.n = 1)),
        "x", checks), "last_x_diff_median")

\* lines 1417-1434
V2DecY(st, checks) ==
    MedianAddVal(DecAddValToLast(
        DecInteger(st, "ic_dy",
                   StreamingMedianGet(st.c.common.last_y_diff_median[st.m]),
                   V2CoordContext(st.n, st.c.ic_dx.k, 20)),
        "y", checks), "last_y_diff_median")

\* the z just stored in last_point, stored in last_height[l]
KeepLastHeight(st) == SetLastHeight(st, st.c.last_point.z)

\* lines 1437-1449
V2DecZ(st) ==
    KeepLastHeight(DecStoreVal(
        DecInteger(st, "ic_z", st.c.common.last_height[st.l],
                   V2CoordContext(st.n, (st.c.ic_dx.k + st.c.ic_dy.k) \div 2, 18)),
        "z"))

\* decompress_field_with with the classification decoded ahead of the
\* intensity
V2DecompressFieldWithClassificationFirst(d, stream, pos, checks) ==
    V2DecZ(V2DecY(V2DecX(
        V2DecPointSourceId(V2DecUserData(V2DecScanAngleRank(
            V2DecIntensity(V2DecClassification(V2DecBuckets(V2DecBitFields(
                V2DecChangedValues(DecStart(d, stream, pos)))))),
            checks))),
        checks), checks))

\* decompress_field_with with r, n, m and l taken from last_point before
\* the bit fields are decoded
V2DecompressFieldWithBucketsFirst(d, stream, pos, checks) ==
    V2DecZ(V2DecY(V2DecX(
        V2DecPointSourceId(V2DecUserData(V2DecScanAngleRank(
            V2DecClassification(V2DecIntensity(V2DecBitFields(
                V2DecChangedValues(V2DecBuckets(DecStart(d, stream, pos)))))),
            checks))),
        checks), checks))

\* v2::LasPoint0Decompressor::decompress_field_with up to the final
\* current_point.set_fields_from(&self.last_point), which the caller's
\* record type performs
V2DecompressFieldWith(d, stream, pos, checks) ==
    V2DecZ(V2DecY(V2DecX(
        V2DecPointSourceId(V2DecUserData(V2DecScanAngleRank(
            V2DecClassification(V2DecIntensity(V2DecBuckets(V2DecBitFields(
                V2DecChangedValues(DecStart(d, stream, pos)))))),
            checks))),
        checks), checks))

---------------------------------------------------------------------------
(* The buffer-facing operations: BufferFieldCompressor and                 *)
(* BufferFieldDecompressor of both versions                                *)

\* v1 compress_first once the buffer went through unpack_from (u)
V1CompressFirstUnpacked(c, u) ==
    IF u.status # "ok"
    THEN [ bytes |-> << >>, c |-> c, calls |-> << >>, status |-> u.status ]
    ELSE V1CompressInitFirstPoint(c, u.point)

\* v1 BufferFieldCompressor::compress_first
V1BufferCompressFirst(c, buf) == V1CompressFirstUnpacked(c, unpack_from(buf))

\* v1 compress_with once the buffer went through unpack_from (u)
V1CompressWithUnpacked(c, u, checks) ==
    IF u.status # "ok"
    THEN [ EncStart(c, u.point) EXCEPT !.status = u.status ]
    ELSE V1CompressFieldWith(c, u.point, checks)

\* v1 BufferFieldCompressor::compress_with
V1BufferCompressWith(c, buf, checks) ==
    V1CompressWithUnpacked(c, unpack_from(buf), checks)

\* v2 compress_first once the buffer went through unpack_from (u)
V2CompressFirstUnpacked(c, u) ==
    IF u.status # "ok"
    THEN [ bytes |-> << >>, c |-> c, calls |-> << >>, status |-> u.status ]
    ELSE V2CompressInitFirstPoint(c, u.point)

\* v2 BufferFieldCompressor::compress_first
V2BufferCompressFirst(c, buf) == V2CompressFirstUnpacked(c, unpack_from(buf))

\* v2 compress_with once the buffer went through unpack_from (u)
V2CompressWithUnpacked(c, u, checks) ==
    IF u.status # "ok"
    THEN [ EncStart(c, u.point) EXCEPT !.status = u.status ]
    ELSE V2CompressFieldWith(c, u.point, checks)

\* v2 BufferFieldCompressor::compress_with
V2BufferCompressWith(c, buf, checks) ==
    V2CompressWithUnpacked(c, unpack_from(buf), checks)

\* self.last_point.set_fields_from(first_point) of the v1 decompressor, for
\* a view w that read_from and the getters have gone over
V1SeedFromView(d, w) ==
    [ w |-> w,
      c |-> IF w.dead THEN d
            ELSE [ d EXCEPT !.last_point = Point0SetFieldsFrom(@, WrapperPoint(w)) ],
      calls |-> << >>,
      status |-> IF w.dead THEN "abort" ELSE "ok",
      nbytes |-> SourceTaken(w) ]

\* v1::LasPoint0Decompressor::init_first_point with a view to fill
V1DecompressInitFirstPointView(d, bytes, w, abort) ==
    V1SeedFromView(d, WrapperLoad(WrapperReadFrom(w, bytes, abort), abort))

\* v1 BufferFieldDecompressor::decompress_first: the view is built without
\* Point0Wrapper::new
V1BufferDecompressFirst(d, bytes, first_point, abort) ==
    V1DecompressInitFirstPointView(d, bytes, Point0WrapperLiteral(first_point), abort)

\* current_point.set_fields_from(&self.last_point) for a Point0, the last
\* step of decompress_field_with: st is the operation up to there
FillPoint(st, current_point) ==
    IF st.status # "ok" THEN current_point
    ELSE Point0SetFieldsFrom(current_point, st.c.last_point)

\* current_point.set_fields_from(&self.last_point) for a view, the last
\* step of decompress_field_with: st is the operation up to there
FillView(st, w, abort) ==
    IF st.status # "ok" THEN [ st |-> st, w |-> w ]
    ELSE [ st |-> st, w |-> WrapperSetFieldsFrom(w, st.c.last_point, abort) ]

\* v1 BufferFieldDecompressor::decompress_with: the view is built without
\* Point0Wrapper::new
V1BufferDecompressWith(d, stream, pos, buf, checks, abort) ==
    FillView(V1DecompressFieldWith(d, stream, pos, checks),
             Point0WrapperLiteral(buf), abort)

\* self.last_point.set_fields_from(first_point) and the zeroed intensity of
\* the v2 decompressor, for a view w that read_from and the getters have
\* gone over
V2SeedFromView(d, w) ==
    [ w |-> w,
      c |-> IF w.dead THEN d
            ELSE [ d EXCEPT !.last_point =
                     [ Point0SetFieldsFrom(@, WrapperPoint(w)) EXCEPT !.intensity = 0 ] ],
      calls |-> << >>,
      status |-> IF w.dead THEN "abort" ELSE "ok",
      nbytes |-> SourceTaken(w) ]

\* v2::LasPoint0Decompressor::init_first_point with a view to fill
V2DecompressInitFirstPointView(d, bytes, w, abort) ==
    V2SeedFromView(d, WrapperLoad(WrapperReadFrom(w, bytes, abort), abort))

\* v2 decompress_first once Point0Wrapper::new has run (nw)
V2DecompressFirstWrapped(d, bytes, nw, abort) ==
    IF nw.status # "ok"
    THEN [ w |-> nw.w, c |-> d, calls |-> << >>, status |-> nw.status, nbytes |-> 0 ]
    ELSE V2DecompressInitFirstPointView(d, bytes, nw.w, abort)

\* v2 BufferFieldDecompressor::decompress_first
V2BufferDecompressFirst(d, bytes, first_point, abort) ==
    V2DecompressFirstWrapped(d, bytes, Point0WrapperNew(first_point), abort)

\* v2 decompress_with once Point0Wrapper::new has run (nw)
V2DecompressWithWrapped(d, stream, pos, nw, checks, abort) ==
    IF nw.status # "ok"
    THEN [ st |-> [ DecStart(d, stream, pos) EXCEPT !.status = nw.status ],
           w |-> nw.w ]
    ELSE FillView(V2DecompressFieldWith(d, stream, pos, checks), nw.w, abort)

\* v2 BufferFieldDecompressor::decompress_with
V2BufferDecompressWith(d, stream, pos, buf, checks, abort) ==
    V2DecompressWithWrapped(d, stream, pos, Point0WrapperNew(buf), checks, abort)

\* how a decompress operation on a view ended
ViewStatus(r) ==
    IF r.st.status # "ok" THEN r.st.status
    ELSE IF r.w.dead THEN "abort" ELSE "ok"

---------------------------------------------------------------------------
(* The points fed to the compressors *)

\* scenario point: x=1000 y=2000 z=300 intensity=10, single return
BasePoint ==
    [ x |-> 1000, y |-> 2000, z |-> 300, intensity |-> 10,
      number_of_returns_of_given_pulse |-> 1,
      scan_direction_flag |-> FALSE,
      edge_of_flight_line |-> FALSE,
      return_number |-> 1,
      classification |-> 2, scan_angle_rank |-> 0,
      user_data |-> 0, point_source_id |-> 7 ]

\* a point that differs from BasePoint in every field
OtherPoint ==
    [ x |-> 1005, y |-> 1990, z |-> 310, intensity |-> 0,
      number_of_returns_of_given_pulse |-> 2,
      scan_direction_flag |-> TRUE,
      edge_of_flight_line |-> TRUE,
      return_number |-> 2,
      classification |-> 5, scan_angle_rank |-> -100,
      user_data |-> 9, point_source_id |-> 65535 ]

\* BasePoint and its one-field variations, OtherPoint, and the ends of the
\* coordinate range
GeneralPool ==
    { BasePoint, OtherPoint,
      [ BasePoint EXCEPT !.intensity = 20 ],
      [ BasePoint EXCEPT !.number_of_returns_of_given_pulse = 3, !.return_number = 2 ],
      [ BasePoint EXCEPT !.classification = 3 ],
      [ BasePoint EXCEPT !.scan_angle_rank = 120 ],
      [ BasePoint EXCEPT !.user_data = 1 ],
      [ BasePoint EXCEPT !.point_source_id = 8 ],
      [ BasePoint EXCEPT !.x = I32Max, !.y = I32Min, !.z = I32Min ] }

\* the locals of compress_field_with and decompress_field_with when the
\* operation ends: n, m, l (v2), the coordinate differences and k_bits
\* (v1) and the changed_values symbol
Locals(st) ==
    [ n |-> st.n, m |-> st.m, l |-> st.l, x_diff |-> st.x_diff,
      y_diff |-> st.y_diff, k_bits |-> st.k_bits, cv |-> st.cv ]

\* an operation without these locals
NoLocals ==
    [ n |-> 0, m |-> 0, l |-> 0, x_diff |-> 0, y_diff |-> 0, k_bits |-> 0, cv |-> 0 ]

\* points that differ in x and y only: x steps of 5, 10 and 15 from one to
\* the next
WindowPool ==
    { BasePoint,
      [ BasePoint EXCEPT !.x = 1005, !.y = 1990 ],
      [ BasePoint EXCEPT !.x = 1015 ],
      [ BasePoint EXCEPT !.x = 1030, !.y = 1970 ] }

\* points that differ in bit fields, classification and user_data only, so
\* that a stream goes back to a value it left
LazyPool ==
    { BasePoint,
      [ BasePoint EXCEPT !.number_of_returns_of_given_pulse = 3, !.return_number = 2 ],
      [ BasePoint EXCEPT !.classification = 3 ],
      [ BasePoint EXCEPT !.user_data = 1 ] }

\* the length of the longest v1 stream: longer over the small pools, so
\* that the three-entry window is filled and overwritten and a model is
\* used again
PointLimit ==
    IF pool = WindowPool THEN MaxWindowPoints
    ELSE IF pool = LazyPool THEN MaxLazyPoints
    ELSE MaxPoints

\* an empty stream: the raw bytes of the first point, then the coder calls
NewSink == [ bytes |-> << >>, calls |-> << >> ]

NewReader == [ bytes |-> 0, calls |-> 0 ]

NoOp ==
    [ op |-> "new", status |-> "ok", calls |-> << >>, point |-> DefaultPoint0,
      nbytes |-> 0, instep |-> TRUE, pre |-> << >>,
      locals |-> NoLocals ]

\* no buffer-facing operation yet
NoBuffer == [ given |-> << >>, after |-> << >>, touched |-> {}, oob |-> {} ]

\* no function has been called on its own yet
NoRet == [ op |-> "none", arg |-> << >>, out |-> << >> ]

\* no codec is built where a specification does not use it
NoCodec == << >>

\* no second stream
NoTwin == << >>

\* the codec specifications hold no separate record
RecordIdle ==
    /\ rec = DefaultPoint0
    /\ view = Point0WrapperLiteral(write_to(DefaultPoint0))
    /\ setter_calls = 0
    /\ ret = NoRet
    /\ fault = 0
    /\ twin = NoTwin

RecordUnchanged == UNCHANGED << rec, view, setter_calls, ret, fault, twin >>

Init ==
    /\ overflow_checks \in BOOLEAN
    /\ pool = GeneralPool
    /\ c1 = V1CompressorNew
    /\ d1 = V1DecompressorNew
    /\ c2 = V2CompressorNew
    /\ d2 = V2DecompressorNew
    /\ sink1 = NewSink
    /\ sink2 = NewSink
    /\ rd1 = NewReader
    /\ rd2 = NewReader
    /\ sent1 = << >>
    /\ sent2 = << >>
    /\ got1 = << >>
    /\ got2 = << >>
    /\ last = NoOp
    /\ buffer = NoBuffer
    /\ RecordIdle

V1Unchanged == UNCHANGED << c1, d1, sink1, rd1, sent1, got1 >>
V2Unchanged == UNCHANGED << c2, d2, sink2, rd2, sent2, got2 >>

\* PointFieldCompressor::init_first_point on the v1 compressor
V1CompressFirst(p) ==
    /\ sent1 = << >>
    /\ last.status = "ok"
    /\ \E r \in { V1CompressInitFirstPoint(c1, p) } :
           /\ c1' = r.c
           /\ sink1' = [ sink1 EXCEPT !.bytes = @ \o r.bytes ]
           /\ sent1' = IF r.status = "ok" THEN Append(sent1, p) ELSE sent1
           /\ last' = [ op |-> "v1_compress_first", status |-> r.status,
                        calls |-> r.calls, point |-> p, nbytes |-> Len(r.bytes),
                        instep |-> TRUE, pre |-> c1,
                        locals |-> NoLocals ]
    /\ RecordUnchanged
    /\ UNCHANGED << overflow_checks, pool, buffer, d1, rd1, got1 >>
    /\ V2Unchanged

\* PointFieldCompressor::compress_field_with on the v1 compressor
V1Compress(p) ==
    /\ sent1 # << >>
    /\ Len(sent1) < PointLimit
    /\ last.status = "ok"
    /\ \E r \in { V1CompressFieldWith(c1, p, overflow_checks) } :
           /\ c1' = r.c
           /\ sink1' = [ sink1 EXCEPT !.calls =
                            @ \o [ i \in 1..Len(r.calls) |-> OnStream(r.calls[i]) ] ]
           /\ sent1' = IF r.status = "ok" THEN Append(sent1, p) ELSE sent1
           /\ last' = [ op |-> "v1_compress", status |-> r.status,
                        calls |-> r.calls, point |-> p, nbytes |-> 0,
                        instep |-> TRUE, pre |-> c1,
                        locals |-> Locals(r) ]
    /\ RecordUnchanged
    /\ UNCHANGED << overflow_checks, pool, buffer, d1, rd1, got1 >>
    /\ V2Unchanged

\* PointFieldDecompressor::init_first_point on the v1 decompressor, with a
\* Point0 to fill
V1DecompressFirst ==
    /\ got1 = << >>
    /\ Len(sent1) > 0
    /\ last.status = "ok"
    /\ \E r \in { V1DecompressInitFirstPoint(d1, SubSeq(sink1.bytes, 1, RecordLen)) } :
           /\ d1' = r.c
           /\ rd1' = [ rd1 EXCEPT !.bytes = @ + r.nbytes ]
           /\ got1' = IF r.status = "ok" THEN Append(got1, r.point) ELSE got1
           /\ last' = [ op |-> "v1_decompress_first", status |-> r.status,
                        calls |-> r.calls, point |-> r.point, nbytes |-> r.nbytes,
                        instep |-> TRUE, pre |-> d1,
                        locals |-> NoLocals ]
    /\ RecordUnchanged
    /\ UNCHANGED << overflow_checks, pool, buffer, c1, sink1, sent1 >>
    /\ V2Unchanged

\* PointFieldDecompressor::decompress_field_with on the v1 decompressor,
\* with a Point0 to fill
V1Decompress ==
    /\ got1 # << >>
    /\ Len(got1) < Len(sent1)
    /\ last.status = "ok"
    /\ \E r \in { V1DecompressFieldWith(d1, sink1.calls, rd1.calls + 1,
                                       overflow_checks) } :
       \E current_point \in { FillPoint(r, DefaultPoint0) } :
           /\ d1' = r.c
           /\ rd1' = [ rd1 EXCEPT !.calls = r.pos - 1 ]
           /\ got1' = IF r.status = "ok" THEN Append(got1, current_point) ELSE got1
           /\ last' = [ op |-> "v1_decompress", status |-> r.status,
                        calls |-> r.calls, point |-> current_point, nbytes |-> 0,
                        instep |-> r.instep, pre |-> d1,
                        locals |-> Locals(r) ]
    /\ RecordUnchanged
    /\ UNCHANGED << overflow_checks, pool, buffer, c1, sink1, sent1 >>
    /\ V2Unchanged

NextV1 ==
    \/ \E p \in pool : V1CompressFirst(p)
    \/ \E p \in pool : V1Compress(p)
    \/ V1DecompressFirst
    \/ V1Decompress

SpecV1 == Init /\ [][NextV1]_vars

\* version 1 over long streams of points that move in x and y only
InitWindow ==
    /\ overflow_checks \in BOOLEAN
    /\ pool = WindowPool
    /\ c1 = V1CompressorNew
    /\ d1 = V1DecompressorNew
    /\ c2 = V2CompressorNew
    /\ d2 = V2DecompressorNew
    /\ sink1 = NewSink
    /\ sink2 = NewSink
    /\ rd1 = NewReader
    /\ rd2 = NewReader
    /\ sent1 = << >>
    /\ sent2 = << >>
    /\ got1 = << >>
    /\ got2 = << >>
    /\ last = NoOp
    /\ buffer = NoBuffer
    /\ RecordIdle

SpecWindow == InitWindow /\ [][NextV1]_vars

\* version 1 over long streams of points that go back and forth between
\* values of bit fields, classification and user_data
InitLazy ==
    /\ overflow_checks \in BOOLEAN
    /\ pool = LazyPool
    /\ c1 = V1CompressorNew
    /\ d1 = V1DecompressorNew
    /\ c2 = V2CompressorNew
    /\ d2 = V2DecompressorNew
    /\ sink1 = NewSink
    /\ sink2 = NewSink
    /\ rd1 = NewReader
    /\ rd2 = NewReader
    /\ sent1 = << >>
    /\ sent2 = << >>
    /\ got1 = << >>
    /\ got2 = << >>
    /\ last = NoOp
    /\ buffer = NoBuffer
    /\ RecordIdle

SpecLazy == InitLazy /\ [][NextV1]_vars

\* PointFieldCompressor::init_first_point on the v2 compressor
V2CompressFirst(p) ==
    /\ sent2 = << >>
    /\ last.status = "ok"
    /\ \E r \in { V2CompressInitFirstPoint(c2, p) } :
           /\ c2' = r.c
           /\ sink2' = [ sink2 EXCEPT !.bytes = @ \o r.bytes ]
           /\ sent2' = IF r.status = "ok" THEN Append(sent2, p) ELSE sent2
           /\ last' = [ op |-> "v2_compress_first", status |-> r.status,
                        calls |-> r.calls, point |-> p, nbytes |-> Len(r.bytes),
                        instep |-> TRUE, pre |-> c2,
                        locals |-> NoLocals ]
    /\ RecordUnchanged
    /\ UNCHANGED << overflow_checks, pool, buffer, d2, rd2, got2 >>
    /\ V1Unchanged

\* PointFieldCompressor::compress_field_with on the v2 compressor
V2Compress(p) ==
    /\ sent2 # << >>
    /\ Len(sent2) < MaxPoints
    /\ last.status = "ok"
    /\ \E r \in { V2CompressFieldWith(c2, p, overflow_checks) } :
           /\ c2' = r.c
           /\ sink2' = [ sink2 EXCEPT !.calls =
                            @ \o [ i \in 1..Len(r.calls) |-> OnStream(r.calls[i]) ] ]
           /\ sent2' = IF r.status = "ok" THEN Append(sent2, p) ELSE sent2
           /\ last' = [ op |-> "v2_compress", status |-> r.status,
                        calls |-> r.calls, point |-> p, nbytes |-> 0,
                        instep |-> TRUE, pre |-> c2,
                        locals |-> Locals(r) ]
    /\ RecordUnchanged
    /\ UNCHANGED << overflow_checks, pool, buffer, d2, rd2, got2 >>
    /\ V1Unchanged

\* PointFieldDecompressor::init_first_point on the v2 decompressor, with a
\* Point0 to fill
V2DecompressFirst ==
    /\ got2 = << >>
    /\ Len(sent2) > 0
    /\ last.status = "ok"
    /\ \E r \in { V2DecompressInitFirstPoint(d2, SubSeq(sink2.bytes, 1, RecordLen)) } :
           /\ d2' = r.c
           /\ rd2' = [ rd2 EXCEPT !.bytes = @ + r.nbytes ]
           /\ got2' = IF r.status = "ok" THEN Append(got2, r.point) ELSE got2
           /\ last' = [ op |-> "v2_decompress_first", status |-> r.status,
                        calls |-> r.calls, point |-> r.point, nbytes |-> r.nbytes,
                        instep |-> TRUE, pre |-> d2,
                        locals |-> NoLocals ]
    /\ RecordUnchanged
    /\ UNCHANGED << overflow_checks, pool, buffer, c2, sink2, sent2 >>
    /\ V1Unchanged

\* PointFieldDecompressor::decompress_field_with on the v2 decompressor,
\* with a Point0 to fill
V2Decompress ==
    /\ got2 # << >>
    /\ Len(got2) < Len(sent2)
    /\ last.status = "ok"
    /\ \E r \in { V2DecompressFieldWith(d2, sink2.calls, rd2.calls + 1,
                                       overflow_checks) } :
       \E current_point \in { FillPoint(r, DefaultPoint0) } :
           /\ d2' = r.c
           /\ rd2' = [ rd2 EXCEPT !.calls = r.pos - 1 ]
           /\ got2' = IF r.status = "ok" THEN Append(got2, current_point) ELSE got2
           /\ last' = [ op |-> "v2_decompress", status |-> r.status,
                        calls |-> r.calls, point |-> current_point, nbytes |-> 0,
                        instep |-> r.instep, pre |-> d2,
                        locals |-> Locals(r) ]
    /\ RecordUnchanged
    /\ UNCHANGED << overflow_checks, pool, buffer, c2, sink2, sent2 >>
    /\ V1Unchanged

NextV2 ==
    \/ \E p \in pool : V2CompressFirst(p)
    \/ \E p \in pool : V2Compress(p)
    \/ V2DecompressFirst
    \/ V2Decompress

SpecV2 == Init /\ [][NextV2]_vars

---------------------------------------------------------------------------
(* Callers of the buffer-facing operations *)

\* the points whose records the callers below hand over
BufferPool == { BasePoint, OtherPoint }

\* the lengths of the callers' buffers
BufLens == { 0, 3, 13, 19, RecordLen } \cup (RecordLen..MaxBufLen)

\* a buffer of n bytes that holds no record yet
Filler(n) == [ i \in 1..n |-> 170 ]

\* `bytes` cut or filled up to n bytes
Fit(bytes, n) == [ i \in 1..n |-> IF i <= Len(bytes) THEN bytes[i] ELSE 170 ]

InitBuffers ==
    /\ overflow_checks \in BOOLEAN
    /\ pool = BufferPool
    /\ c1 = V1CompressorNew
    /\ d1 = V1DecompressorNew
    /\ c2 = V2CompressorNew
    /\ d2 = V2DecompressorNew
    /\ sink1 = NewSink
    /\ sink2 = NewSink
    /\ rd1 = NewReader
    /\ rd2 = NewReader
    /\ sent1 = << >>
    /\ sent2 = << >>
    /\ got1 = << >>
    /\ got2 = << >>
    /\ last = NoOp
    /\ buffer = NoBuffer
    /\ RecordIdle

\* Point0::unpack_from(buf)
UnpackFrom(buf) ==
    /\ last.status = "ok"
    /\ \E r \in { unpack_from(buf) } :
           /\ last' = [ op |-> "unpack_from", status |-> r.status, calls |-> << >>,
                        point |-> r.point, nbytes |-> 0, instep |-> TRUE,
                        pre |-> << >>,
                        locals |-> NoLocals ]
           /\ buffer' = [ given |-> buf, after |-> buf, touched |-> r.touched,
                          oob |-> {} ]
    /\ RecordUnchanged
    /\ UNCHANGED << overflow_checks, pool >>
    /\ V1Unchanged
    /\ V2Unchanged

\* p.pack_into(buf)
PackInto(p, buf) ==
    /\ last.status = "ok"
    /\ \E r \in { pack_into(p, buf) } :
           /\ last' = [ op |-> "pack_into", status |-> r.status, calls |-> << >>,
                        point |-> p, nbytes |-> 0, instep |-> TRUE, pre |-> << >>,
                        locals |-> NoLocals ]
           /\ buffer' = [ given |-> buf, after |-> r.output, touched |-> r.touched,
                          oob |-> {} ]
    /\ RecordUnchanged
    /\ UNCHANGED << overflow_checks, pool >>
    /\ V1Unchanged
    /\ V2Unchanged

\* compress_first(dst, buf) on the v1 compressor
V1BufCompressFirst(buf) ==
    /\ sent1 = << >>
    /\ last.status = "ok"
    /\ \E u \in { unpack_from(buf) } :
       \E r \in { V1BufferCompressFirst(c1, buf) } :
           /\ c1' = r.c
           /\ sink1' = [ sink1 EXCEPT !.bytes = @ \o r.bytes ]
           /\ sent1' = IF r.status = "ok" THEN Append(sent1, u.point) ELSE sent1
           /\ last' = [ op |-> "v1_buf_compress_first", status |-> r.status,
                        calls |-> r.calls, point |-> u.point, nbytes |-> Len(r.bytes),
                        instep |-> TRUE, pre |-> c1,
                        locals |-> NoLocals ]
           /\ buffer' = [ given |-> buf, after |-> buf, touched |-> u.touched,
                          oob |-> {} ]
    /\ RecordUnchanged
    /\ UNCHANGED << overflow_checks, pool, d1, rd1, got1 >>
    /\ V2Unchanged

\* compress_with(encoder, buf) on the v1 compressor
V1BufCompress(buf) ==
    /\ sent1 # << >>
    /\ Len(sent1) < MaxPoints
    /\ last.status = "ok"
    /\ \E u \in { unpack_from(buf) } :
       \E r \in { V1BufferCompressWith(c1, buf, overflow_checks) } :
           /\ c1' = r.c
           /\ sink1' = [ sink1 EXCEPT !.calls =
                            @ \o [ i \in 1..Len(r.calls) |-> OnStream(r.calls[i]) ] ]
           /\ sent1' = IF r.status = "ok" THEN Append(sent1, u.point) ELSE sent1
           /\ last' = [ op |-> "v1_buf_compress_with", status |-> r.status,
                        calls |-> r.calls, point |-> u.point, nbytes |-> 0,
                        instep |-> TRUE, pre |-> c1,
                        locals |-> Locals(r) ]
           /\ buffer' = [ given |-> buf, after |-> buf, touched |-> u.touched,
                          oob |-> {} ]
    /\ RecordUnchanged
    /\ UNCHANGED << overflow_checks, pool, d1, rd1, got1 >>
    /\ V2Unchanged

\* decompress_first(src, first_point) on the v1 decompressor
V1BufDecompressFirst(buf, abort) ==
    /\ got1 = << >>
    /\ Len(sent1) > 0
    /\ last.status = "ok"
    /\ \E r \in { V1BufferDecompressFirst(d1, SubSeq(sink1.bytes, 1, RecordLen),
                                         buf, abort) } :
           /\ d1' = r.c
           /\ rd1' = [ rd1 EXCEPT !.bytes = @ + r.nbytes ]
           /\ got1' = IF r.status = "ok" THEN Append(got1, WrapperPoint(r.w)) ELSE got1
           /\ last' = [ op |-> "v1_buf_decompress_first", status |-> r.status,
                        calls |-> r.calls, point |-> WrapperPoint(r.w),
                        nbytes |-> r.nbytes, instep |-> TRUE, pre |-> d1,
                        locals |-> NoLocals ]
           /\ buffer' = [ given |-> buf, after |-> WrapperSlice(r.w),
                          touched |-> {}, oob |-> r.w.oob ]
    /\ RecordUnchanged
    /\ UNCHANGED << overflow_checks, pool, c1, sink1, sent1 >>
    /\ V2Unchanged

\* decompress_with(decoder, buf) on the v1 decompressor
V1BufDecompress(buf, abort) ==
    /\ got1 # << >>
    /\ Len(got1) < Len(sent1)
    /\ last.status = "ok"
    /\ \E r \in { V1BufferDecompressWith(d1, sink1.calls, rd1.calls + 1, buf,
                                        overflow_checks, abort) } :
           /\ d1' = r.st.c
           /\ rd1' = [ rd1 EXCEPT !.calls = r.st.pos - 1 ]
           /\ got1' = IF ViewStatus(r) = "ok" THEN Append(got1, WrapperPoint(r.w))
                      ELSE got1
           /\ last' = [ op |-> "v1_buf_decompress_with", status |-> ViewStatus(r),
                        calls |-> r.st.calls, point |-> WrapperPoint(r.w),
                        nbytes |-> 0, instep |-> r.st.instep, pre |-> d1,
                        locals |-> Locals(r.st) ]
           /\ buffer' = [ given |-> buf, after |-> WrapperSlice(r.w),
                          touched |-> {}, oob |-> r.w.oob ]
    /\ RecordUnchanged
    /\ UNCHANGED << overflow_checks, pool, c1, sink1, sent1 >>
    /\ V2Unchanged

\* compress_first(dst, buf) on the v2 compressor
V2BufCompressFirst(buf) ==
    /\ sent2 = << >>
    /\ last.status = "ok"
    /\ \E u \in { unpack_from(buf) } :
       \E r \in { V2BufferCompressFirst(c2, buf) } :
           /\ c2' = r.c
           /\ sink2' = [ sink2 EXCEPT !.bytes = @ \o r.bytes ]
           /\ sent2' = IF r.status = "ok" THEN Append(sent2, u.point) ELSE sent2
           /\ last' = [ op |-> "v2_buf_compress_first", status |-> r.status,
                        calls |-> r.calls, point |-> u.point, nbytes |-> Len(r.bytes),
                        instep |-> TRUE, pre |-> c2,
                        locals |-> NoLocals ]
           /\ buffer' = [ given |-> buf, after |-> buf, touched |-> u.touched,
                          oob |-> {} ]
    /\ RecordUnchanged
    /\ UNCHANGED << overflow_checks, pool, d2, rd2, got2 >>
    /\ V1Unchanged

\* compress_with(encoder, buf) on the v2 compressor
V2BufCompress(buf) ==
    /\ sent2 # << >>
    /\ Len(sent2) < MaxPoints
    /\ last.status = "ok"
    /\ \E u \in { unpack_from(buf) } :
       \E r \in { V2BufferCompressWith(c2, buf, overflow_checks) } :
           /\ c2' = r.c
           /\ sink2' = [ sink2 EXCEPT !.calls =
                            @ \o [ i \in 1..Len(r.calls) |-> OnStream(r.calls[i]) ] ]
           /\ sent2' = IF r.status = "ok" THEN Append(sent2, u.point) ELSE sent2
           /\ last' = [ op |-> "v2_buf_compress_with", status |-> r.status,
                        calls |-> r.calls, point |-> u.point, nbytes |-> 0,
                        instep |-> TRUE, pre |-> c2,
                        locals |-> Locals(r) ]
           /\ buffer' = [ given |-> buf, after |-> buf, touched |-> u.touched,
                          oob |-> {} ]
    /\ RecordUnchanged
    /\ UNCHANGED << overflow_checks, pool, d2, rd2, got2 >>
    /\ V1Unchanged

\* decompress_first(src, first_point) on the v2 decompressor
V2BufDecompressFirst(buf, abort) ==
    /\ got2 = << >>
    /\ Len(sent2) > 0
    /\ last.status = "ok"
    /\ \E r \in { V2BufferDecompressFirst(d2, SubSeq(sink2.bytes, 1, RecordLen),
                                         buf, abort) } :
           /\ d2' = r.c
           /\ rd2' = [ rd2 EXCEPT !.bytes = @ + r.nbytes ]
           /\ got2' = IF r.status = "ok" THEN Append(got2, WrapperPoint(r.w)) ELSE got2
           /\ last' = [ op |-> "v2_buf_decompress_first", status |-> r.status,
                        calls |-> r.calls, point |-> WrapperPoint(r.w),
                        nbytes |-> r.nbytes, instep |-> TRUE, pre |-> d2,
                        locals |-> NoLocals ]
           /\ buffer' = [ given |-> buf, after |-> WrapperSlice(r.w),
                          touched |-> {}, oob |-> r.w.oob ]
    /\ RecordUnchanged
    /\ UNCHANGED << overflow_checks, pool, c2, sink2, sent2 >>
    /\ V1Unchanged

\* decompress_with(decoder, buf) on the v2 decompressor
V2BufDecompress(buf, abort) ==
    /\ got2 # << >>
    /\ Len(got2) < Len(sent2)
    /\ last.status = "ok"
    /\ \E r \in { V2BufferDecompressWith(d2, sink2.calls, rd2.calls + 1, buf,
                                        overflow_checks, abort) } :
           /\ d2' = r.st.c
           /\ rd2' = [ rd2 EXCEPT !.calls = r.st.pos - 1 ]
           /\ got2' = IF ViewStatus(r) = "ok" THEN Append(got2, WrapperPoint(r.w))
                      ELSE got2
           /\ last' = [ op |-> "v2_buf_decompress_with", status |-> ViewStatus(r),
                        calls |-> r.st.calls, point |-> WrapperPoint(r.w),
                        nbytes |-> 0, instep |-> r.st.instep, pre |-> d2,
                        locals |-> Locals(r.st) ]
           /\ buffer' = [ given |-> buf, after |-> WrapperSlice(r.w),
                          touched |-> {}, oob |-> r.w.oob ]
    /\ RecordUnchanged
    /\ UNCHANGED << overflow_checks, pool, c2, sink2, sent2 >>
    /\ V1Unchanged

\* the buffer-facing operations of one version per stream, and the two
\* whole-record conversions of Point0
NextBuffers ==
    \/ \E p \in pool, n \in BufLens : UnpackFrom(Fit(write_to(p), n))
    \/ \E p \in pool, n \in BufLens : PackInto(p, Filler(n))
    \/ \E p \in pool, n \in BufLens :
           sent2 = << >> /\ V1BufCompressFirst(Fit(write_to(p), n))
    \/ \E p \in pool, n \in BufLens :
           sent2 = << >> /\ V1BufCompress(Fit(write_to(p), n))
    \/ \E n \in BufLens, abort \in BOOLEAN :
           sent2 = << >> /\ V1BufDecompressFirst(Filler(n), abort)
    \/ \E n \in BufLens, abort \in BOOLEAN :
           sent2 = << >> /\ V1BufDecompress(Filler(n), abort)
    \/ \E p \in pool, n \in BufLens :
           sent1 = << >> /\ V2BufCompressFirst(Fit(write_to(p), n))
    \/ \E p \in pool, n \in BufLens :
           sent1 = << >> /\ V2BufCompress(Fit(write_to(p), n))
    \/ \E n \in BufLens, abort \in BOOLEAN :
           sent1 = << >> /\ V2BufDecompressFirst(Filler(n), abort)
    \/ \E n \in BufLens, abort \in BOOLEAN :
           sent1 = << >> /\ V2BufDecompress(Filler(n), abort)

SpecBuffers == InitBuffers /\ [][NextBuffers]_vars

\* one codec version per stream: the operations of one version, as long as
\* the other version has coded nothing
NextCodecs ==
    \/ sent2 = << >> /\ NextV1
    \/ sent1 = << >> /\ NextV2

SpecCodecs == Init /\ [][NextCodecs]_vars

---------------------------------------------------------------------------
(* The codecs over a source, a sink and coders that can fail *)

\* the calls of an operation that can be the one to fail: a first-point
\* operation makes nine, a field operation at most ten
FaultCalls == 1..10

InitFaults ==
    /\ overflow_checks = FALSE
    /\ pool = BufferPool
    /\ c1 = V1CompressorNew
    /\ d1 = V1DecompressorNew
    /\ c2 = V2CompressorNew
    /\ d2 = V2DecompressorNew
    /\ sink1 = NewSink
    /\ sink2 = NewSink
    /\ rd1 = NewReader
    /\ rd2 = NewReader
    /\ sent1 = << >>
    /\ sent2 = << >>
    /\ got1 = << >>
    /\ got2 = << >>
    /\ last = NoOp
    /\ buffer = NoBuffer
    /\ RecordIdle

\* from now on call number k of an operation fails: the sink is full, the
\* source is cut short, the coder runs out of input
Break(k) ==
    /\ last.status = "ok"
    /\ fault = 0
    /\ fault' = k
    /\ last' = [ NoOp EXCEPT !.op = "break" ]
    /\ UNCHANGED << overflow_checks, pool, buffer, rec, view, setter_calls, ret,
                    twin >>
    /\ V1Unchanged
    /\ V2Unchanged

NextFaults ==
    \/ \E k \in FaultCalls : Break(k)
    \/ NextCodecs

SpecFaults == InitFaults /\ [][NextFaults]_vars

---------------------------------------------------------------------------
(* Two v2 streams side by side *)

\* a size_of_field that gives the size of Point0 in memory (23 bytes of
\* fields, aligned to 4) instead of the size of the record
size_of_field_in_memory(codec) == 24

\* the 20 returned by the four size_of_field (lines 874-876, 902-904,
\* 1239-1241, 1457-1459)
size_of_field(codec) == 20

\* one state for every instance, as if the fields of Common were statics:
\* an operation works on its own fields but on the other instance's common
SelfWithStaticCommon(instance, other_instance) ==
    [ instance EXCEPT !.common = other_instance.common ]

\* what an operation works on: the fields of &mut self, each built by the
\* instance's own new(), and nothing of any other instance
SelfOf(instance, other_instance) == instance

NewTwin ==
    [ c |-> V2CompressorNew, d |-> V2DecompressorNew, sink |-> NewSink,
      rd |-> NewReader, sent |-> << >>, got |-> << >> ]

InitStreams ==
    /\ overflow_checks = FALSE
    /\ pool = BufferPool
    /\ c1 = NoCodec
    /\ d1 = NoCodec
    /\ c2 = V2CompressorNew
    /\ d2 = V2DecompressorNew
    /\ sink1 = NewSink
    /\ sink2 = NewSink
    /\ rd1 = NewReader
    /\ rd2 = NewReader
    /\ sent1 = << >>
    /\ sent2 = << >>
    /\ got1 = << >>
    /\ got2 = << >>
    /\ last = NoOp
    /\ buffer = NoBuffer
    /\ rec = DefaultPoint0
    /\ view = Point0WrapperLiteral(write_to(DefaultPoint0))
    /\ setter_calls = 0
    /\ ret = NoRet
    /\ fault = 0
    /\ twin = NewTwin

TwinOnly ==
    /\ UNCHANGED << overflow_checks, pool, buffer, rec, view, setter_calls, ret,
                    fault >>
    /\ V1Unchanged
    /\ V2Unchanged

\* init_first_point on the compressor of the second stream
TwinCompressFirst(p) ==
    /\ twin.sent = << >>
    /\ last.status = "ok"
    /\ \E r \in { V2CompressInitFirstPoint(SelfOf(twin.c, c2), p) } :
           /\ twin' = [ twin EXCEPT
                          !.c = r.c,
                          !.sink.bytes = @ \o r.bytes,
                          !.sent = IF r.status = "ok" THEN Append(@, p) ELSE @ ]
           /\ last' = [ op |-> "twin_compress_first", status |-> r.status,
                        calls |-> r.calls, point |-> p, nbytes |-> Len(r.bytes),
                        instep |-> TRUE, pre |-> twin.c,
                        locals |-> NoLocals ]
    /\ TwinOnly

\* compress_field_with on the compressor of the second stream
TwinCompress(p) ==
    /\ twin.sent # << >>
    /\ Len(twin.sent) < MaxPoints
    /\ last.status = "ok"
    /\ \E r \in { V2CompressFieldWith(SelfOf(twin.c, c2), p, overflow_checks) } :
           /\ twin' = [ twin EXCEPT
                          !.c = r.c,
                          !.sink.calls =
                              @ \o [ i \in 1..Len(r.calls) |-> OnStream(r.calls[i]) ],
                          !.sent = IF r.status = "ok" THEN Append(@, p) ELSE @ ]
           /\ last' = [ op |-> "twin_compress", status |-> r.status,
                        calls |-> r.calls, point |-> p, nbytes |-> 0,
                        instep |-> TRUE, pre |-> twin.c,
                        locals |-> Locals(r) ]
    /\ TwinOnly

\* init_first_point on the decompressor of the second stream
TwinDecompressFirst ==
    /\ twin.got = << >>
    /\ Len(twin.sent) > 0
    /\ last.status = "ok"
    /\ \E r \in { V2DecompressInitFirstPoint(SelfOf(twin.d, d2),
                                            SubSeq(twin.sink.bytes, 1, RecordLen)) } :
           /\ twin' = [ twin EXCEPT
                          !.d = r.c,
                          !.rd.bytes = @ + r.nbytes,
                          !.got = IF r.status = "ok" THEN Append(@, r.point) ELSE @ ]
           /\ last' = [ op |-> "twin_decompress_first", status |-> r.status,
                        calls |-> r.calls, point |-> r.point, nbytes |-> r.nbytes,
                        instep |-> TRUE, pre |-> twin.d,
                        locals |-> NoLocals ]
    /\ TwinOnly

\* decompress_field_with on the decompressor of the second stream
TwinDecompress ==
    /\ twin.got # << >>
    /\ Len(twin.got) < Len(twin.sent)
    /\ last.status = "ok"
    /\ \E r \in { V2DecompressFieldWith(SelfOf(twin.d, d2), twin.sink.calls,
                                       twin.rd.calls + 1, overflow_checks) } :
       \E current_point \in { FillPoint(r, DefaultPoint0) } :
           /\ twin' = [ twin EXCEPT
                          !.d = r.c,
                          !.rd.calls = r.pos - 1,
                          !.got = IF r.status = "ok" THEN Append(@, current_point)
                                  ELSE @ ]
           /\ last' = [ op |-> "twin_decompress", status |-> r.status,
                        calls |-> r.calls, point |-> current_point, nbytes |-> 0,
                        instep |-> r.instep, pre |-> twin.d,
                        locals |-> Locals(r) ]
    /\ TwinOnly

NextStreams ==
    \/ NextV2
    \/ \E p \in pool : TwinCompressFirst(p)
    \/ \E p \in pool : TwinCompress(p)
    \/ TwinDecompressFirst
    \/ TwinDecompress

SpecStreams == InitStreams /\ [][NextStreams]_vars

---------------------------------------------------------------------------
(* The record and the functions of point10.rs called on their own *)

\* setter calls made on one record
MaxSetterCalls == 2

\* the thirteen getters of impl LasPoint0 for Point0
Point0Getters(p) ==
    [ x |-> p.x, y |-> p.y, z |-> p.z, intensity |-> p.intensity,
      bit_fields |-> bit_fields_to_byte(p),
      number_of_returns_of_given_pulse |-> p.number_of_returns_of_given_pulse,
      scan_direction_flag |-> p.scan_direction_flag,
      edge_of_flight_line |-> p.edge_of_flight_line,
      return_number |-> p.return_number,
      classification |-> p.classification,
      scan_angle_rank |-> p.scan_angle_rank,
      user_data |-> p.user_data,
      point_source_id |-> p.point_source_id ]

\* u8::from_le_bytes in place of i8::from_le_bytes: the byte unsigned
U8FromLe(b) == b[1]

\* i8::from_le_bytes
I8FromLe(b) == AsI8(b[1])

\* the thirteen getters of impl LasPoint0 for Point0Wrapper: slc[i] is
\* w.mem[i + 1]; the four sub-fields are taken from bit_fields()
WrapperGetters(w) ==
    LET bit_fields == w.mem[15]
    IN  [ x |-> I32FromLe(SubSeq(w.mem, 1, 4)),
          y |-> I32FromLe(SubSeq(w.mem, 5, 8)),
          z |-> I32FromLe(SubSeq(w.mem, 9, 12)),
          intensity |-> U16FromLe(SubSeq(w.mem, 13, 14)),
          bit_fields |-> bit_fields,
          number_of_returns_of_given_pulse |-> (bit_fields \div 8) % 8,
          scan_direction_flag |-> ((bit_fields \div 64) % 2) # 0,
          edge_of_flight_line |-> ((bit_fields \div 128) % 2) # 0,
          return_number |-> bit_fields % 8,
          classification |-> w.mem[16],
          scan_angle_rank |-> I8FromLe(<< w.mem[17] >>),
          user_data |-> w.mem[18],
          point_source_id |-> U16FromLe(SubSeq(w.mem, 19, 20)) ]

\* the nine setters of impl LasPoint0 for Point0
Point0Set(p, setter, new_val) ==
    CASE setter = "set_x" -> [ p EXCEPT !.x = new_val ]
      [] setter = "set_y" -> [ p EXCEPT !.y = new_val ]
      [] setter = "set_z" -> [ p EXCEPT !.z = new_val ]
      [] setter = "set_intensity" -> [ p EXCEPT !.intensity = new_val ]
      [] setter = "set_bit_fields" -> populate_bit_fields_from(p, new_val)
      [] setter = "set_classification" -> [ p EXCEPT !.classification = new_val ]
      [] setter = "set_scan_angle_rank" -> [ p EXCEPT !.scan_angle_rank = new_val ]
      [] setter = "set_user_data" -> [ p EXCEPT !.user_data = new_val ]
      [] setter = "set_point_source_id" -> [ p EXCEPT !.point_source_id = new_val ]

\* the nine setters of impl LasPoint0 for Point0Wrapper
WrapperSet(w, setter, new_val, abort) ==
    CASE setter = "set_x" -> WrapperStore(w, 0, I32ToLe(new_val), abort)
      [] setter = "set_y" -> WrapperStore(w, 4, I32ToLe(new_val), abort)
      [] setter = "set_z" -> WrapperStore(w, 8, I32ToLe(new_val), abort)
      [] setter = "set_intensity" -> WrapperStore(w, 12, U16ToLe(new_val), abort)
      [] setter = "set_bit_fields" -> WrapperStore(w, 14, << new_val >>, abort)
      [] setter = "set_classification" -> WrapperStore(w, 15, << new_val >>, abort)
      [] setter = "set_scan_angle_rank" ->
             WrapperStore(w, 16, << AsU8(new_val) >>, abort)
      [] setter = "set_user_data" -> WrapperStore(w, 17, << new_val >>, abort)
      [] setter = "set_point_source_id" ->
             WrapperStore(w, 18, U16ToLe(new_val), abort)

\* the 20 bytes a record starts from
StartBytes == { write_to(BasePoint), Filler(RecordLen) }

\* the values the callers hand to the setters, by type
I32Args == { -1, 305419896 }
U16Args == { 4660 }
U8Args == { 200 }
I8Args == { -100 }

InitRecord ==
    /\ overflow_checks = FALSE
    /\ pool = {}
    /\ c1 = NoCodec
    /\ d1 = NoCodec
    /\ c2 = NoCodec
    /\ d2 = NoCodec
    /\ sink1 = NewSink
    /\ sink2 = NewSink
    /\ rd1 = NewReader
    /\ rd2 = NewReader
    /\ sent1 = << >>
    /\ sent2 = << >>
    /\ got1 = << >>
    /\ got2 = << >>
    /\ last = NoOp
    /\ buffer = NoBuffer
    /\ \E bytes \in StartBytes :
           /\ rec = unpack_from(bytes).point
           /\ view = Point0WrapperNew(bytes).w
    /\ setter_calls = 0
    /\ ret = NoRet
    /\ fault = 0
    /\ twin = NoTwin

CodecsUnchanged ==
    /\ UNCHANGED << overflow_checks, pool, last, buffer, fault, twin >>
    /\ V1Unchanged
    /\ V2Unchanged

\* the same trait setter called on the Point0 and on the Point0Wrapper
CallSetter(setter, new_val) ==
    /\ setter_calls < MaxSetterCalls
    /\ rec' = Point0Set(rec, setter, new_val)
    /\ view' = WrapperSet(view, setter, new_val, TRUE)
    /\ setter_calls' = setter_calls + 1
    /\ ret' = [ op |-> setter, arg |-> new_val, out |-> << >> ]
    /\ CodecsUnchanged

SetX(new_val) == CallSetter("set_x", new_val)
SetY(new_val) == CallSetter("set_y", new_val)
SetZ(new_val) == CallSetter("set_z", new_val)
SetIntensity(new_val) == CallSetter("set_intensity", new_val)
SetBitFields(new_val) == CallSetter("set_bit_fields", new_val)
SetClassification(new_val) == CallSetter("set_classification", new_val)
SetScanAngleRank(new_val) == CallSetter("set_scan_angle_rank", new_val)
SetUserData(new_val) == CallSetter("set_user_data", new_val)
SetPointSourceId(new_val) == CallSetter("set_point_source_id", new_val)

NextRecord ==
    \/ \E v \in I32Args : SetX(v)
    \/ \E v \in { I32Min } : SetY(v)
    \/ \E v \in { I32Max } : SetZ(v)
    \/ \E v \in U16Args : SetIntensity(v)
    \/ \E v \in Bytes : SetBitFields(v)
    \/ \E v \in U8Args : SetClassification(v)
    \/ \E v \in I8Args : SetScanAngleRank(v)
    \/ \E v \in U8Args : SetUserData(v)
    \/ \E v \in { 65535 } : SetPointSourceId(v)

SpecRecord == InitRecord /\ [][NextRecord]_vars

\* the values of the triples median_diff is called on
MedianArgs == { I32Min, -1, 0, 1, 2, I32Max }

\* the bytes handed to read_from and unpack_from
RecordBytes == { write_to(p) : p \in GeneralPool } \cup { Filler(RecordLen) }

InitFunctions ==
    /\ overflow_checks = FALSE
    /\ pool = GeneralPool
    /\ c1 = NoCodec
    /\ d1 = NoCodec
    /\ c2 = NoCodec
    /\ d2 = NoCodec
    /\ sink1 = NewSink
    /\ sink2 = NewSink
    /\ rd1 = NewReader
    /\ rd2 = NewReader
    /\ sent1 = << >>
    /\ sent2 = << >>
    /\ got1 = << >>
    /\ got2 = << >>
    /\ last = NoOp
    /\ buffer = NoBuffer
    /\ RecordIdle

FunctionReturns(op, arg, out) ==
    /\ ret' = [ op |-> op, arg |-> arg, out |-> out ]
    /\ UNCHANGED << rec, view, setter_calls >>
    /\ CodecsUnchanged

\* populate_bit_fields_from(byte) on a Point0, then bit_fields_to_byte
PackBitFields(p, byte) ==
    FunctionReturns("bit_fields_to_byte", << p, byte >>,
                    bit_fields_to_byte(populate_bit_fields_from(p, byte)))

\* p.write_to(dst) and p.pack_into(buf) on a 20-byte buffer
Serialise(p) ==
    FunctionReturns("serialise", p,
                    [ write_to |-> write_to(p),
                      pack_into |-> pack_into(p, Filler(RecordLen)) ])

\* read_from(src) on a fresh Point0 and Point0::unpack_from(bytes)
Deserialise(bytes) ==
    FunctionReturns("deserialise", bytes,
                    [ read_from |-> read_from(DefaultPoint0, bytes),
                      unpack_from |-> unpack_from(bytes) ])

\* v1::median_diff on a triple
MedianDiff(diff_array) ==
    FunctionReturns("median_diff", diff_array, median_diff(diff_array))

NextFunctions ==
    \/ \E p \in { DefaultPoint0, OtherPoint }, byte \in Bytes : PackBitFields(p, byte)
    \/ \E p \in pool : Serialise(p)
    \/ \E bytes \in RecordBytes : Deserialise(bytes)
    \/ \E a \in MedianArgs, b \in MedianArgs, c \in MedianArgs :
           MedianDiff(<< a, b, c >>)

SpecFunctions == InitFunctions /\ [][NextFunctions]_vars

---------------------------------------------------------------------------
(* Properties *)

IsPrefix(a, b) == Len(a) <= Len(b) /\ \A i \in 1..Len(a) : a[i] = b[i]

\* the names of the coders of a sequence of calls, in call order
Coders(calls) == [ i \in 1..Len(calls) |-> calls[i].coder ]

\* `names` if the bit of weight `mask` is set in sym, else nothing
IfBit(sym, mask, names) == IF BitSet(sym, mask) THEN names ELSE << >>

\* the point given to the compress operation before the one `last` records
PrevSent(sent) == IF last.status = "ok" THEN sent[Len(sent) - 1] ELSE sent[Len(sent)]

\* the 20-byte Point10 record of the format: x, y, z (i32), intensity (u16),
\* the bit_fields byte, classification, scan_angle_rank, user_data (one byte
\* each), point_source_id (u16), little-endian
Point10Layout(p) ==
    I32ToLe(p.x) \o I32ToLe(p.y) \o I32ToLe(p.z) \o U16ToLe(p.intensity)
    \o << p.return_number + 8 * p.number_of_returns_of_given_pulse
          + 64 * BoolAsInt(p.scan_direction_flag)
          + 128 * BoolAsInt(p.edge_of_flight_line),
          p.classification, p.scan_angle_rank % 256, p.user_data >>
    \o U16ToLe(p.point_source_id)

\* C1: every sequence P0..Pn given to the v2 compressor (first-point
\* operation, then compress) is coded, and a fresh v2 decompressor returns
\* exactly P0..Pn from the stream, field for field.
C1_V2RoundTrip ==
    /\ last.op \in { "v2_compress", "v2_decompress" } => last.status = "ok"
    /\ IsPrefix(got2, sent2)

\* C2: every sequence P0..Pn given to the v1 compressor (first-point
\* operation, then compress) is coded, and a fresh v1 decompressor returns
\* exactly P0..Pn from the stream, field for field.
C2_V1RoundTrip ==
    /\ last.op \in { "v1_compress", "v1_decompress" } => last.status = "ok"
    /\ IsPrefix(got1, sent1)

\* C3: in both versions the compressor's first-point operation writes
\* exactly the 20 bytes of the little-endian Point10 layout and makes no
\* coder call; the decompressor's first-point operation reads exactly those
\* 20 bytes, makes no coder call, and returns the point that was encoded.
C3_FirstPointRaw ==
    /\ last.op = "v1_compress_first" =>
           /\ last.status = "ok" /\ last.nbytes = 20 /\ last.calls = << >>
           /\ sink1.bytes = Point10Layout(last.point) /\ sink1.calls = << >>
    /\ last.op = "v2_compress_first" =>
           /\ last.status = "ok" /\ last.nbytes = 20 /\ last.calls = << >>
           /\ sink2.bytes = Point10Layout(last.point) /\ sink2.calls = << >>
    /\ last.op = "v1_decompress_first" =>
           /\ last.status = "ok" /\ last.nbytes = 20 /\ last.calls = << >>
           /\ rd1 = [ bytes |-> 20, calls |-> 0 ]
           /\ last.point = sent1[1] /\ got1 = << sent1[1] >>
    /\ last.op = "v2_decompress_first" =>
           /\ last.status = "ok" /\ last.nbytes = 20 /\ last.calls = << >>
           /\ rd2 = [ bytes |-> 20, calls |-> 0 ]
           /\ last.point = sent2[1] /\ got2 = << sent2[1] >>

\* a first point with every field set went through both versions' decoders
C3_Witness ==
    /\ last.op \in { "v1_decompress_first", "v2_decompress_first" }
    /\ last.point = OtherPoint

\* the changed_values calls of the operation `last` records
ChangedValuesCalls == { i \in 1..Len(last.calls) : last.calls[i].coder = "changed_values" }

\* C4: the symbol the v1 compressor codes on the 64-symbol changed_values
\* model for a non-first point is in 0..63, with bit5 set iff intensity
\* differs from the previous point, bit4 iff the packed bit_fields byte
\* differs, bit3 iff classification, bit2 iff scan_angle_rank, bit1 iff
\* user_data, bit0 iff point_source_id; it is 32 when only intensity differs.
C4_V1ChangeBitmap ==
    last.op = "v1_compress" =>
        /\ last.status = "ok" => Cardinality(ChangedValuesCalls) = 1
        /\ \A i \in ChangedValuesCalls :
            LET sym == last.calls[i].actual
                prev == PrevSent(sent1)
                cur == last.point
            IN  /\ sym \in 0..63
                /\ last.pre.changed_values_model.symbols = 64
                /\ BitSet(sym, 32) <=> prev.intensity # cur.intensity
                /\ BitSet(sym, 16) <=> bit_fields_to_byte(prev) # bit_fields_to_byte(cur)
                /\ BitSet(sym, 8) <=> prev.classification # cur.classification
                /\ BitSet(sym, 4) <=> prev.scan_angle_rank # cur.scan_angle_rank
                /\ BitSet(sym, 2) <=> prev.user_data # cur.user_data
                /\ BitSet(sym, 1) <=> prev.point_source_id # cur.point_source_id
                /\ cur = [ prev EXCEPT !.intensity = cur.intensity ]
                       /\ cur.intensity # prev.intensity => sym = 32

\* only intensity differs from the previous point, and 32 was coded
C4_Witness ==
    /\ last.op = "v1_compress"
    /\ last.status = "ok"
    /\ last.point.intensity # PrevSent(sent1).intensity
    /\ last.point = [ PrevSent(sent1) EXCEPT !.intensity = last.point.intensity ]
    /\ last.calls[4].coder = "changed_values"
    /\ last.calls[4].actual = 32

\* the bucket m of a point
BucketM(p) == NUMBER_RETURN_MAP[p.number_of_returns_of_given_pulse + 1][p.return_number + 1]

\* C5: the symbol the v2 compressor codes on changed_values for a non-first
\* point with bucket m has bit5 set iff one of the four bit_fields
\* sub-fields differs from the previous point, bit4 iff the intensity
\* differs from last_intensity[m], bit3 iff classification differs, bit2 iff
\* scan_angle_rank, bit1 iff user_data, bit0 iff point_source_id; it is 16
\* for P0 of intensity 10 followed by the same point with intensity 20.
C5_V2ChangeBitmap ==
    last.op = "v2_compress" =>
        /\ Cardinality(ChangedValuesCalls) = 1
        /\ \A i \in ChangedValuesCalls :
            LET sym == last.calls[i].actual
                prev == PrevSent(sent2)
                cur == last.point
            IN  /\ sym \in 0..63
                /\ BitSet(sym, 32) <=>
                       \/ prev.return_number # cur.return_number
                       \/ prev.number_of_returns_of_given_pulse
                              # cur.number_of_returns_of_given_pulse
                       \/ prev.scan_direction_flag # cur.scan_direction_flag
                       \/ prev.edge_of_flight_line # cur.edge_of_flight_line
                /\ BitSet(sym, 16) <=>
                       cur.intensity # last.pre.common.last_intensity[BucketM(cur)]
                /\ BitSet(sym, 8) <=> prev.classification # cur.classification
                /\ BitSet(sym, 4) <=> prev.scan_angle_rank # cur.scan_angle_rank
                /\ BitSet(sym, 2) <=> prev.user_data # cur.user_data
                /\ BitSet(sym, 1) <=> prev.point_source_id # cur.point_source_id
                /\ (/\ prev = sent2[1]
                    /\ prev.intensity = 10
                    /\ cur = [ prev EXCEPT !.intensity = 20 ]) => sym = 16

\* P0 of intensity 10, then the same point with intensity 20: 16 was coded;
\* last_intensity[m] (0) is not the previous point's intensity (10)
C5_Witness ==
    /\ last.op = "v2_compress"
    /\ sent2 = << BasePoint, [ BasePoint EXCEPT !.intensity = 20 ] >>
    /\ last.calls[1].coder = "changed_values"
    /\ last.calls[1].actual = 16
    /\ last.pre.common.last_intensity[BucketM(last.point)] # sent2[1].intensity

\* the second point of the stream is the first point again, of intensity 10
SecondIsFirstAgain ==
    /\ last.op = "v2_compress"
    /\ last.status = "ok"
    /\ Len(sent2) = 2
    /\ sent2[2] = sent2[1]
    /\ sent2[1].intensity = 10

\* C6 as stated: for a point identical to the first point P0 (P0.intensity
\* = 10) the v2 compressor codes changed_values symbol 0 and no per-field
\* symbol before x, y, z.
C6_IdenticalPointCodesZero ==
    SecondIsFirstAgain =>
        /\ last.calls[1].coder = "changed_values"
        /\ last.calls[1].actual = 0
        /\ Coders(last.calls) = << "changed_values", "ic_dx", "ic_dy", "ic_z" >>

\* C6: for a point identical to the first point P0 (P0.intensity = 10) the
\* v2 compressor codes changed_values symbol 16, the intensity bit alone,
\* since last_intensity[m] is still 0 after the first point; the one
\* per-field symbol coded before x, y, z is the intensity (value 10 against
\* prediction 0 on the intensity coder); no bit_fields, classification,
\* scan_angle_rank, user_data or point_source_id symbol is coded.
C6_IdenticalPointCodesIntensity ==
    SecondIsFirstAgain =>
        /\ Coders(last.calls) = << "changed_values", "ic_intensity", "ic_dx", "ic_dy", "ic_z" >>
        /\ last.calls[1].actual = 16
        /\ last.calls[2].pred = 0
        /\ last.calls[2].actual = 10
        /\ last.pre.common.last_intensity[BucketM(last.point)] = 0
        /\ c2.common.last_intensity[BucketM(last.point)] = 10

\* the first point again, of intensity 10, went through compress
C6_Witness ==
    /\ SecondIsFirstAgain
    /\ sent2 = << BasePoint, BasePoint >>
    /\ last.calls[1].actual = 16

\* the coders of a v1 point whose changed_values symbol is sym, in wire order
V1Order(sym) ==
    << "ic_dx", "ic_dy", "ic_dz", "changed_values" >>
    \o IfBit(sym, 32, << "ic_intensity" >>)
    \o IfBit(sym, 16, << "bit_byte_models" >>)
    \o IfBit(sym, 8, << "classification_models" >>)
    \o IfBit(sym, 4, << "ic_scan_angle_rank" >>)
    \o IfBit(sym, 2, << "user_data_models" >>)
    \o IfBit(sym, 1, << "ic_point_source_id" >>)

\* the stream entries the decompress operation `last` records went over
StreamSegment(stream, reader) ==
    SubSeq(stream, reader.calls - Len(last.calls) + 1, reader.calls)

\* C7: for a non-first point the v1 compressor calls its coders in the
\* order dx, dy, z, changed_values, then for each set bit intensity,
\* bit_fields, classification, scan_angle_rank, user_data, point_source_id
\* (no call for a clear bit); the v1 decompressor makes its decode calls in
\* the same order on the same coders and models.
C7_V1EmissionOrder ==
    /\ (last.op = "v1_compress" /\ last.status = "ok") =>
           /\ Len(last.calls) >= 4
           /\ Coders(last.calls) = V1Order(last.calls[4].actual)
    /\ last.op = "v1_decompress" =>
           /\ Len(last.calls) >= 4
           /\ Coders(last.calls) = V1Order(last.calls[4].actual)
           /\ last.instep
           /\ \A i \in 1..Len(last.calls) :
                  OnStream(last.calls[i]) = StreamSegment(sink1.calls, rd1)[i]

\* the v1 decompressor went over a point that changed in every field
C7_Witness ==
    /\ last.op = "v1_decompress"
    /\ Len(last.calls) = 10
    /\ last.calls[4].actual = 63

\* the coders of a v2 point whose changed_values symbol is sym, in wire order
V2Order(sym) ==
    << "changed_values" >>
    \o IfBit(sym, 32, << "bit_byte" >>)
    \o IfBit(sym, 16, << "ic_intensity" >>)
    \o IfBit(sym, 8, << "classification" >>)
    \o IfBit(sym, 4, << "scan_angle_rank" >>)
    \o IfBit(sym, 2, << "user_data" >>)
    \o IfBit(sym, 1, << "ic_point_source_id" >>)
    \o << "ic_dx", "ic_dy", "ic_z" >>

\* C8: for a non-first point the v2 compressor codes changed_values first,
\* then for each set bit, in this order, bit_fields, intensity,
\* classification, scan_angle_rank, user_data, point_source_id, and only
\* then x, y, z; the v2 decompressor makes its decode calls in the same
\* order.
C8_V2EmissionOrder ==
    /\ last.op = "v2_compress" =>
           /\ Len(last.calls) >= 1
           /\ IsPrefix(Coders(last.calls), V2Order(last.calls[1].actual))
           /\ last.status = "ok" => Coders(last.calls) = V2Order(last.calls[1].actual)
    /\ last.op = "v2_decompress" =>
           /\ Len(last.calls) >= 1
           /\ IsPrefix(Coders(last.calls), V2Order(last.calls[1].actual))
           /\ last.status = "ok" => Coders(last.calls) = V2Order(last.calls[1].actual)
           /\ last.instep
           /\ \A i \in 1..Len(last.calls) :
                  OnStream(last.calls[i]) = StreamSegment(sink2.calls, rd2)[i]

\* the v2 decompressor went over a point that changed in every field
C8_Witness ==
    /\ last.op = "v2_decompress"
    /\ last.status = "ok"
    /\ Len(last.calls) = 10
    /\ last.calls[1].actual = 63

\* the buffer-facing operations of the compressors and of the decompressors
BufferCompressOps ==
    { "v1_buf_compress_first", "v1_buf_compress_with",
      "v2_buf_compress_first", "v2_buf_compress_with" }

BufferDecompressOps ==
    { "v1_buf_decompress_first", "v1_buf_decompress_with",
      "v2_buf_decompress_first", "v2_buf_decompress_with" }

\* the codec the buffer-facing operation `last` records was called on, as
\* the operation left it
CodecAfter ==
    CASE last.op \in { "v1_buf_compress_first", "v1_buf_compress_with" } -> c1
      [] last.op \in { "v1_buf_decompress_first", "v1_buf_decompress_with" } -> d1
      [] last.op \in { "v2_buf_compress_first", "v2_buf_compress_with" } -> c2
      [] last.op \in { "v2_buf_decompress_first", "v2_buf_decompress_with" } -> d2

\* C9: in both versions compress_first, compress_with, decompress_first and
\* decompress_with, called with a buffer of less than 20 bytes, stop with a
\* failure before any byte at or past the buffer's end is read or written
\* and before any codec state changes.
C9_UnderLengthFailsFast ==
    (/\ last.op \in BufferCompressOps \cup BufferDecompressOps
     /\ Len(buffer.given) < RecordLen) =>
        /\ last.status # "ok"
        /\ buffer.oob = {}
        /\ CodecAfter = last.pre

\* C10: Point0::unpack_from and Point0::pack_into panic on a buffer of less
\* than 20 bytes, pack_into leaving the buffer as it was; on 20 bytes or
\* more both succeed and touch bytes 0..19 only.
C10_PackUnpackLength ==
    /\ last.op = "unpack_from" =>
           IF Len(buffer.given) < 20
           THEN last.status = "panic" /\ buffer.touched = {}
           ELSE /\ last.status = "ok"
                /\ buffer.touched \subseteq 0..19
                /\ buffer.after = buffer.given
    /\ last.op = "pack_into" =>
           IF Len(buffer.given) < 20
           THEN /\ last.status = "panic"
                /\ buffer.touched = {}
                /\ buffer.after = buffer.given
           ELSE /\ last.status = "ok"
                /\ buffer.touched \subseteq 0..19
                /\ Len(buffer.after) = Len(buffer.given)
                /\ \A i \in 21..Len(buffer.given) : buffer.after[i] = buffer.given[i]

\* pack_into stored a record in a buffer of more than 20 bytes
C10_Witness ==
    /\ last.op = "pack_into"
    /\ last.status = "ok"
    /\ Len(buffer.given) > 20
    /\ buffer.touched # {}
    /\ SubSeq(buffer.after, 1, 20) = Point10Layout(OtherPoint)

\* C11: for every byte b in 0..255, populate_bit_fields_from(b) on a Point0
\* followed by bit_fields_to_byte gives b back.
C11_BitFieldsRoundTrip ==
    ret.op = "bit_fields_to_byte" => ret.out = ret.arg[2]

\* a byte with set and clear bits in each sub-field went through both
\* functions, on a Point0 whose sub-fields held other values before
C11_Witness ==
    /\ ret.op = "bit_fields_to_byte"
    /\ ret.arg = << OtherPoint, 169 >>
    /\ ret.out = 169

\* the scan_angle_rank calls of the operation `last` records
ScanAngleCalls == { i \in 1..Len(last.calls) : last.calls[i].coder = "scan_angle_rank" }

\* C12: when scan_angle_rank changed, the v2 compressor codes the symbol
\* (current.scan_angle_rank - last.scan_angle_rank) mod 256 on the model
\* selected by the current point's scan_direction_flag, and the v2
\* decompressor rebuilds scan_angle_rank as (symbol + last.scan_angle_rank)
\* wrapped to a signed byte, for every pair of i8 values.
C12_ScanAngleWraparound ==
    /\ ( /\ last.op = "v2_compress"
         /\ last.point.scan_angle_rank # last.pre.last_point.scan_angle_rank ) =>
           \E i \in ScanAngleCalls :
               /\ ScanAngleCalls = { i }
               /\ last.calls[i].sel = BoolAsInt(last.point.scan_direction_flag)
               /\ last.calls[i].actual =
                      (last.point.scan_angle_rank
                       - last.pre.last_point.scan_angle_rank) % 256
    /\ ( /\ last.op = "v2_decompress"
         /\ ScanAngleCalls # {} ) =>
           \A i \in ScanAngleCalls :
               d2.last_point.scan_angle_rank =
                   AsI8(last.calls[i].actual + last.pre.last_point.scan_angle_rank)

\* the value found at index 1 once the triple is sorted
MiddleOf(t) ==
    CHOOSE v \in { t[1], t[2], t[3] } :
        /\ Cardinality({ i \in 1..3 : t[i] < v }) <= 1
        /\ Cardinality({ i \in 1..3 : t[i] > v }) <= 1

\* C14: for every triple of integers, v1's median_diff returns the value
\* found at index 1 after sorting the triple, ties included.
C14_MedianOfThree ==
    ret.op = "median_diff" => ret.out = MiddleOf(ret.arg)

\* a triple with a tie that runs through the last test of median_diff
C14_Witness ==
    /\ ret.op = "median_diff"
    /\ ret.arg = << 2, 1, 1 >>
    /\ ret.out = 1

FieldOps == { "v1_compress", "v2_compress", "v1_decompress", "v2_decompress" }

FirstPointOps ==
    { "v1_compress_first", "v2_compress_first",
      "v1_decompress_first", "v2_decompress_first" }

\* the last operation made fewer calls than the one that was to fail
FaultNotReached ==
    /\ last.status = "ok"
    /\ last.op \in FieldOps => Len(last.calls) < fault
    /\ last.op \in FirstPointOps => fault > Len(ValueEnds)

\* the last operation returned the error of the failing call and made no
\* call after it, nor the failing one again
FaultReturned ==
    /\ last.status = "err"
    /\ last.op \in FieldOps => Len(last.calls) = fault - 1
    /\ last.op \in FirstPointOps => last.nbytes = BytesBefore(fault)

\* C15 as stated: in every encode or decode operation of both versions, an
\* error returned by the source, the sink or a coder is returned to the
\* caller, no further coder call is made for that point, the call is not
\* retried, and a decode operation does not write the caller's output point.
C15_FailurePropagation ==
    (fault > 0 /\ last.op \in FieldOps \cup FirstPointOps) =>
        \/ FaultNotReached
        \/ /\ FaultReturned
           /\ last.op \in { "v1_decompress", "v2_decompress",
                            "v1_decompress_first", "v2_decompress_first" } =>
                  last.point = DefaultPoint0

\* C15 amended: as above, but only decompress_field_with leaves the
\* caller's point unwritten; a failed first-point decode has stored in the
\* caller's point the values read before the failing read, and nothing of
\* the values after it.
C15_FailurePropagationFirstPointPartial ==
    (fault > 0 /\ last.op \in FieldOps \cup FirstPointOps) =>
        \/ FaultNotReached
        \/ /\ FaultReturned
           /\ last.op \in { "v1_decompress", "v2_decompress" } =>
                  last.point = DefaultPoint0
           /\ last.op = "v1_decompress_first" =>
                  \A k \in 1..Len(ValueFields) : \A f \in ValueFields[k] :
                      last.point[f] = IF k < fault THEN sent1[1][f]
                                      ELSE DefaultPoint0[f]
           /\ last.op = "v2_decompress_first" =>
                  \A k \in 1..Len(ValueFields) : \A f \in ValueFields[k] :
                      last.point[f] = IF k < fault THEN sent2[1][f]
                                      ELSE DefaultPoint0[f]

\* the source failed at the third read of a first-point decode: x and y of
\* the encoded point are in the caller's point
C15_Witness ==
    /\ last.op = "v2_decompress_first"
    /\ last.status = "err"
    /\ fault = 3
    /\ sent2 = << OtherPoint >>
    /\ last.point = [ DefaultPoint0 EXCEPT !.x = OtherPoint.x, !.y = OtherPoint.y ]

\* C16: size_of_field returns 20 for the v1 compressor, the v1 decompressor,
\* the v2 compressor and the v2 decompressor in every reachable state:
\* before the first point, after any number of points, after a failed
\* operation.
C16_SizeOfField ==
    /\ size_of_field(c1) = 20
    /\ size_of_field(d1) = 20
    /\ size_of_field(c2) = 20
    /\ size_of_field(d2) = 20

\* size_of_field asked of a v2 decompressor whose last operation failed
\* after it had decoded part of a point
C16_Witness ==
    /\ last.op = "v2_decompress"
    /\ last.status = "err"
    /\ Len(last.calls) >= 2
    /\ d2 # last.pre
    /\ size_of_field(d2) = 20

\* one more point through a compressor that is alone: `before` is the
\* stream so far
CompressAloneStep(before, r, first) ==
    [ c |-> r.c,
      bytes |-> IF first THEN r.bytes ELSE before.bytes,
      calls |-> before.calls \o [ i \in 1..Len(r.calls) |-> OnStream(r.calls[i]) ] ]

CompressAloneNext(before, p) ==
    CompressAloneStep(before, V2CompressFieldWith(before.c, p, overflow_checks), FALSE)

\* the compressor and the sink of a v2 stream that is given `points` and is
\* the only stream there is
RECURSIVE V2CompressAlone(_)
V2CompressAlone(points) ==
    IF points = << >>
    THEN [ c |-> V2CompressorNew, bytes |-> << >>, calls |-> << >> ]
    ELSE IF Len(points) = 1
    THEN CompressAloneStep(V2CompressAlone(<< >>),
                           V2CompressInitFirstPoint(V2CompressorNew, points[1]),
                           TRUE)
    ELSE CHOOSE after \in
             { CompressAloneNext(before, points[Len(points)]) :
                 before \in { V2CompressAlone(SubSeq(points, 1, Len(points) - 1)) } } :
             TRUE

\* one more point out of a decompressor that is alone
DecompressAloneStep(before, r, point) ==
    [ d |-> r.c, pos |-> r.pos, got |-> Append(before.got, point) ]

DecompressAloneFill(before, r) ==
    DecompressAloneStep(before, r, FillPoint(r, DefaultPoint0))

DecompressAloneNext(before, sink) ==
    DecompressAloneFill(before,
        V2DecompressFieldWith(before.d, sink.calls, before.pos, overflow_checks))

\* the decompressor of a v2 stream that has taken n points from `sink` and
\* is the only stream there is, with the points it returned
RECURSIVE V2DecompressAlone(_, _)
V2DecompressAlone(sink, n) ==
    IF n = 0
    THEN [ d |-> V2DecompressorNew, pos |-> 1, got |-> << >> ]
    ELSE IF n = 1
    THEN [ d |-> V2DecompressInitFirstPoint(V2DecompressorNew,
                                            SubSeq(sink.bytes, 1, RecordLen)).c,
           pos |-> 1,
           got |-> << V2DecompressInitFirstPoint(
                          V2DecompressorNew,
                          SubSeq(sink.bytes, 1, RecordLen)).point >> ]
    ELSE CHOOSE after \in
             { DecompressAloneNext(before, sink) :
                 before \in { V2DecompressAlone(sink, n - 1) } } :
             TRUE

\* a stream holds what it holds when it is the only one
RunsAsAlone(c, sink, sent, d, got) ==
    /\ \A alone \in { V2CompressAlone(sent) } :
          /\ c = alone.c
          /\ sink.bytes = alone.bytes
          /\ sink.calls = alone.calls
    /\ \A alone \in { V2DecompressAlone(sink, Len(got)) } :
          /\ d = alone.d
          /\ got = alone.got

IntensityBitClear ==
    /\ last.calls # << >>
    /\ last.calls[1].coder = "changed_values"
    /\ ~intensity_changed(last.calls[1].actual)

BitFieldsOf(g, b) ==
    /\ g.bit_fields = b
    /\ g.return_number = b % 8
    /\ g.number_of_returns_of_given_pulse = (b \div 8) % 8
    /\ g.scan_direction_flag = ((b \div 64) % 2 = 1)
    /\ g.edge_of_flight_line = ((b \div 128) % 2 = 1)

\* C18: started from the same 20 bytes, the Point0 and the Point0Wrapper
\* return equal values from each of the thirteen getters after any sequence
\* of the same trait setter calls; after set_bit_fields(b) both return
\* bit_fields() = b, return_number = b & 7, number_of_returns = (b >> 3) & 7,
\* scan_direction_flag = bit 6 and edge_of_flight_line = bit 7.
C18_ViewAgreement ==
    /\ Point0Getters(rec) = WrapperGetters(view)
    /\ ret.op = "set_bit_fields" =>
           /\ BitFieldsOf(Point0Getters(rec), ret.arg)
           /\ BitFieldsOf(WrapperGetters(view), ret.arg)

\* a negative scan angle was set, then a packed byte with set and clear
\* bits in every sub-field
C18_Witness ==
    /\ setter_calls = 2
    /\ ret.op = "set_bit_fields"
    /\ ret.arg = 169
    /\ Point0Getters(rec).scan_angle_rank = -100
    /\ WrapperGetters(view).scan_angle_rank = -100
    /\ WrapperGetters(view).number_of_returns_of_given_pulse = 5

\* C19: for every Point0 p with return_number and number_of_returns <= 7,
\* pack_into(p) and write_to(p) produce the same 20 bytes, the little-endian
\* Point10 layout, and unpack_from and read_from of those bytes both give p.
C19_LayoutAgreement ==
    /\ ret.op = "serialise" =>
           /\ ret.out.write_to = Point10Layout(ret.arg)
           /\ ret.out.pack_into.status = "ok"
           /\ ret.out.pack_into.output = Point10Layout(ret.arg)
    /\ ret.op = "deserialise" =>
           /\ ret.out.unpack_from.status = "ok"
           /\ ret.out.unpack_from.point = ret.out.read_from
           /\ \A p \in pool : ret.arg = Point10Layout(p) => ret.out.read_from = p

\* the bytes of a point with a negative scan angle, both flags set and
\* 65535 as point_source_id were read back
C19_Witness ==
    /\ ret.op = "deserialise"
    /\ ret.arg = Point10Layout(OtherPoint)
    /\ ret.out.read_from = OtherPoint
    /\ ret.out.unpack_from.point = OtherPoint

\* C20 as stated: after the first-point operation of the v2 compressor and
\* of the v2 decompressor, last_point is the first point in every field
\* except intensity, which is 0.
C20_FirstPointIntensityZero ==
    /\ last.op = "v2_compress_first" =>
           c2.last_point = [ last.point EXCEPT !.intensity = 0 ]
    /\ last.op = "v2_decompress_first" =>
           d2.last_point = [ last.point EXCEPT !.intensity = 0 ]

\* C20 amended: only the decompressor zeroes the intensity; after the
\* compressor's first-point operation last_point is the first point in
\* every field, intensity included.
C20_FirstPointIntensityZeroInDecompressor ==
    /\ last.op = "v2_compress_first" => c2.last_point = last.point
    /\ last.op = "v2_decompress_first" =>
           d2.last_point = [ last.point EXCEPT !.intensity = 0 ]

\* a first point of intensity 10 went into the decompressor
C20_Witness ==
    /\ last.op = "v2_decompress_first"
    /\ last.point.intensity = 10
    /\ d2.last_point.intensity = 0
    /\ c2.last_point.intensity = 10

\* the calls the operation `last` records made on coder `name`
CallsTo(name) == { i \in 1..Len(last.calls) : last.calls[i].coder = name }

\* the level l of a point, NUMBER_RETURN_LEVEL[n][r]
BucketL(p) == NUMBER_RETURN_LEVEL[p.number_of_returns_of_given_pulse + 1][p.return_number + 1]

\* the v2 compressor just coded a point equal to every point before it
FirstPointAgain ==
    /\ last.op = "v2_compress"
    /\ last.status = "ok"
    /\ \A i \in 1..Len(sent2) : sent2[i] = sent2[1]

\* dx and dy of the operation were coded once each, difference 0 against
\* prediction 0
NoMoveCoded ==
    /\ \E i \in CallsTo("ic_dx") :
           /\ CallsTo("ic_dx") = { i }
           /\ last.calls[i].pred = 0 /\ last.calls[i].actual = 0 /\ last.calls[i].code = 0
    /\ \E i \in CallsTo("ic_dy") :
           /\ CallsTo("ic_dy") = { i }
           /\ last.calls[i].pred = 0 /\ last.calls[i].actual = 0 /\ last.calls[i].code = 0

\* C21 as stated: when the second point P1 equals the first point P0, the
\* v2 compressor calls the z coder with prediction P0.z, so that the z
\* residual is 0, and the dx and dy coders with difference 0 and
\* prediction 0.
C21_IdenticalPointPredictsSameZ ==
    (FirstPointAgain /\ Len(sent2) = 2) =>
        /\ NoMoveCoded
        /\ \E i \in CallsTo("ic_z") :
               /\ CallsTo("ic_z") = { i }
               /\ last.calls[i].pred = sent2[1].z
               /\ last.calls[i].code = 0

\* C21 amended: for P1 = P0 the z coder is called with prediction
\* last_height[l], which is still 0 after the first-point operation, so the
\* residual is P0.z itself; last_height[l] is P0.z afterwards, and a third
\* identical point is the one predicted with P0.z and residual 0.  dx and
\* dy are coded with difference 0 and prediction 0 each time.
C21_IdenticalPointPredictsLastHeight ==
    FirstPointAgain =>
        /\ NoMoveCoded
        /\ \E i \in CallsTo("ic_z") :
               /\ CallsTo("ic_z") = { i }
               /\ last.calls[i].pred = last.pre.common.last_height[BucketL(last.point)]
               /\ last.calls[i].pred = IF Len(sent2) = 2 THEN 0 ELSE sent2[1].z
               /\ last.calls[i].actual = sent2[1].z
               /\ last.calls[i].code = IF Len(sent2) = 2 THEN sent2[1].z ELSE 0
        /\ c2.common.last_height[BucketL(last.point)] = sent2[1].z

\* the scenario point (z = 300) was coded a second time
C21_Witness ==
    /\ FirstPointAgain
    /\ sent2 = << BasePoint, BasePoint >>
    /\ \E i \in CallsTo("ic_z") : last.calls[i].pred = 0 /\ last.calls[i].code = 300

\* the n, m and l the v2 compressor derives from a point (lines 1109-1114)
BucketsOf(p) ==
    [ n |-> p.number_of_returns_of_given_pulse, m |-> BucketM(p), l |-> BucketL(p) ]

\* the n, m and l an operation ended with
BucketsUsed == [ n |-> last.locals.n, m |-> last.locals.m, l |-> last.locals.l ]

\* every call of the operation on coder `name` was made with this
\* prediction
PredictedWith(name, pred) == \A i \in CallsTo(name) : last.calls[i].pred = pred

\* C22: for every non-first point the n, m and l the v2 decompressor uses
\* for intensity, x, y and z are those the compressor derived from the
\* current point's number_of_returns and return_number, whether bit_fields
\* changed (decoded and stored before m and l are computed) or not.
C22_DecodeBucketsFromNewBitFields ==
    /\ last.op = "v2_compress" => BucketsUsed = BucketsOf(last.point)
    /\ (last.op = "v2_decompress" /\ last.status = "ok") =>
           /\ BucketsUsed = BucketsOf(sent2[Len(got2)])
           /\ PredictedWith("ic_intensity",
                            last.pre.common.last_intensity[BucketM(sent2[Len(got2)])])
           /\ PredictedWith("ic_dx", StreamingMedianGet(
                  last.pre.common.last_x_diff_median[BucketM(sent2[Len(got2)])]))
           /\ PredictedWith("ic_dy", StreamingMedianGet(
                  last.pre.common.last_y_diff_median[BucketM(sent2[Len(got2)])]))
           /\ PredictedWith("ic_z",
                            last.pre.common.last_height[BucketL(sent2[Len(got2)])])
           /\ CallsTo("ic_dx") # {} /\ CallsTo("ic_dy") # {} /\ CallsTo("ic_z") # {}

\* a decoded point whose bit_fields changed n and r, and with them m and l;
\* the level it left had a height of its own
C22_Witness ==
    /\ last.op = "v2_decompress"
    /\ last.status = "ok"
    /\ bit_fields_changed(last.locals.cv)
    /\ BucketM(last.point) # BucketM(last.pre.last_point)
    /\ BucketL(last.point) # BucketL(last.pre.last_point)
    /\ last.pre.common.last_height[BucketL(last.pre.last_point)] # 0
    /\ last.locals.l = BucketL(last.point)

\* the k-th difference of a sequence of points in field f, as lines 782-783
\* compute it
DiffOf(points, k, f) == WrappingSub32(points[k + 1][f], points[k][f])

\* the non-first points of a sequence whose differences went to slot j
SlotWrites(points, j) == { k \in 1..(Len(points) - 1) : (k - 1) % 3 = j }

\* the three-entry window after a sequence of points: each slot holds the
\* difference last written to it, 0 when none was
WindowOf(points, f) ==
    [ j \in 1..3 |->
        IF SlotWrites(points, j - 1) = {} THEN 0
        ELSE DiffOf(points,
                    CHOOSE k \in SlotWrites(points, j - 1) :
                        \A o \in SlotWrites(points, j - 1) : o <= k,
                    f) ]

\* last_incr after a sequence of points
IncrOf(points) == IF points = << >> THEN 0 ELSE (Len(points) - 1) % 3

\* C23: in the v1 compressor and decompressor last_incr is in {0,1,2} and is
\* the number of non-first points processed mod 3; each non-first point
\* stores its x and y differences in slot last_incr before advancing it, so
\* the window holds the differences of the last three points (0 in a slot
\* not yet written); dx and dy of the next point are predicted with the
\* median of the window; after differences 5, 10, 15 the prediction is 10.
C23_ThreeEntryWindow ==
    /\ c1.last_incr \in 0..2 /\ d1.last_incr \in 0..2
    /\ c1.last_incr = IncrOf(sent1) /\ d1.last_incr = IncrOf(got1)
    /\ c1.last_x_diffs = WindowOf(sent1, "x") /\ c1.last_y_diffs = WindowOf(sent1, "y")
    /\ d1.last_x_diffs = WindowOf(got1, "x") /\ d1.last_y_diffs = WindowOf(got1, "y")
    /\ (last.op \in { "v1_compress", "v1_decompress" } /\ last.status = "ok") =>
           /\ CallsTo("ic_dx") # {} /\ CallsTo("ic_dy") # {}
           /\ PredictedWith("ic_dx", MiddleOf(last.pre.last_x_diffs))
           /\ PredictedWith("ic_dy", MiddleOf(last.pre.last_y_diffs))
           /\ last.pre.last_x_diffs \in { << 5, 10, 15 >>, << 15, 5, 10 >>, << 10, 15, 5 >> } =>
                  PredictedWith("ic_dx", 10)

\* x went 1000, 1005, 1015, 1030: the fourth non-first point was predicted
\* with 10 and its own difference took the place of the 5
C23_Witness ==
    /\ last.op = "v1_decompress"
    /\ last.status = "ok"
    /\ Len(got1) = 5
    /\ last.pre.last_x_diffs = << 5, 10, 15 >>
    /\ \E i \in CallsTo("ic_dx") : last.calls[i].pred = 10
    /\ d1.last_x_diffs = << 0, 10, 15 >>
    /\ d1.last_incr = 1

\* every call of the operation on coder `name` was made with this context
\* or model index
SelectedWith(name, sel) == \A i \in CallsTo(name) : last.calls[i].sel = sel

\* the codec as the operation `last` records left it
V1After == IF last.op = "v1_compress" THEN c1 ELSE d1
V2After == IF last.op = "v2_compress" THEN c2 ELSE d2

\* the smaller of two numbers
Least(a, b) == IF a < b THEN a ELSE b

\* (k_dx + k_dy) / 2 of the two coders of a codec
KAvg(c) == (c.ic_dx.k + c.ic_dy.k) \div 2

\* C24: for every non-first point, in the v1 compressor and decompressor,
\* dx is coded with the default context, dy with context min(k_dx, 19) for
\* the k of the dx coder after the dx call, z with context
\* min((k_dx + k_dy) / 2, 19) predicted from the previous z, and
\* scan_angle_rank, when changed, with context 1 if (k_dx + k_dy) / 2 < 3
\* and 0 otherwise.
C24_V1Contexts ==
    (last.op \in { "v1_compress", "v1_decompress" } /\ last.status = "ok") =>
        /\ CallsTo("ic_dx") # {} /\ CallsTo("ic_dy") # {} /\ CallsTo("ic_dz") # {}
        /\ SelectedWith("ic_dx", DefaultContext)
        /\ SelectedWith("ic_dy", Least(V1After.ic_dx.k, 19))
        /\ SelectedWith("ic_dz", Least(KAvg(V1After), 19))
        /\ PredictedWith("ic_dz", last.pre.last_point.z)
        /\ SelectedWith("ic_scan_angle_rank", IF KAvg(V1After) < 3 THEN 1 ELSE 0)
        /\ (CallsTo("ic_scan_angle_rank") # {}) =
               (last.point.scan_angle_rank # last.pre.last_point.scan_angle_rank)

\* a decoded point far from the previous one, scan angle changed: k_dx is
\* above 19, dy and z took context 19 and the scan angle context 0
C24_Witness ==
    /\ last.op = "v1_decompress"
    /\ last.status = "ok"
    /\ d1.ic_dx.k > 19
    /\ \E i \in CallsTo("ic_dy") : last.calls[i].sel = 19
    /\ \E i \in CallsTo("ic_dz") : last.calls[i].sel = 19
    /\ \E i \in CallsTo("ic_scan_angle_rank") : last.calls[i].sel = 0

\* k with its lowest bit cleared
WithoutLowestBit(k) == 2 * (k \div 2)

\* C25: for every non-first point with number_of_returns n and bucket m, in
\* the v2 compressor and decompressor, dx uses context (n == 1 ? 1 : 0), dy
\* uses (n == 1) + (k_dx < 20 ? k_dx without its lowest bit : 20), z uses
\* (n == 1) + (k_avg < 18 ? k_avg without its lowest bit : 18) with
\* k_avg = (k_dx + k_dy) / 2, and intensity, when changed, uses min(m, 3).
C25_V2Contexts ==
    (last.op \in { "v2_compress", "v2_decompress" } /\ last.status = "ok") =>
        /\ CallsTo("ic_dx") # {} /\ CallsTo("ic_dy") # {} /\ CallsTo("ic_z") # {}
        /\ SelectedWith("ic_dx",
               IF last.point.number_of_returns_of_given_pulse = 1 THEN 1 ELSE 0)
        /\ SelectedWith("ic_dy",
               BoolAsInt(last.point.number_of_returns_of_given_pulse = 1)
               + (IF V2After.ic_dx.k < 20 THEN WithoutLowestBit(V2After.ic_dx.k) ELSE 20))
        /\ SelectedWith("ic_z",
               BoolAsInt(last.point.number_of_returns_of_given_pulse = 1)
               + (IF KAvg(V2After) < 18 THEN WithoutLowestBit(KAvg(V2After)) ELSE 18))
        /\ SelectedWith("ic_intensity", Least(BucketM(last.point), 3))
        /\ (CallsTo("ic_intensity") # {}) = intensity_changed(last.locals.cv)

\* a decoded point of two returns, five in x from the previous one: k_dx is
\* 3 and the dy context 2
C25_Witness ==
    /\ last.op = "v2_decompress"
    /\ last.status = "ok"
    /\ last.point.number_of_returns_of_given_pulse = 2
    /\ d2.ic_dx.k = 3
    /\ \E i \in CallsTo("ic_dy") : last.calls[i].sel = 2
    /\ \E i \in CallsTo("ic_dx") : last.calls[i].sel = 0

\* a v2 field operation that completed
V2PointDone == last.op \in { "v2_compress", "v2_decompress" } /\ last.status = "ok"

\* entry j of a table of v2::Common is what it was before the operation
SameEntry(table, j) == V2After.common[table][j] = last.pre.common[table][j]

\* every entry of last_intensity of a codec is 0
NoIntensityYet(c) == \A j \in 0..15 : c.common.last_intensity[j] = 0

\* C26: after the v2 compressor or decompressor processes a non-first point
\* with bucket m, last_intensity[m] is that point's intensity and no other
\* entry of last_intensity was changed by the operation; all 16 entries are
\* 0 after construction and after the first-point operation.
C26_LastIntensityMaintenance ==
    /\ (sent2 = << >> \/ last.op = "v2_compress_first") => NoIntensityYet(c2)
    /\ (got2 = << >> \/ last.op = "v2_decompress_first") => NoIntensityYet(d2)
    /\ V2PointDone =>
           /\ V2After.common.last_intensity[BucketM(last.point)] = last.point.intensity
           /\ \A j \in 0..15 : j # BucketM(last.point) => SameEntry("last_intensity", j)

\* a point of bucket 4 was decoded after points of bucket 0: both entries
\* now hold an intensity, the one of bucket 0 as it was
C26_Witness ==
    /\ last.op = "v2_decompress"
    /\ last.status = "ok"
    /\ BucketM(last.point) = 4
    /\ last.pre.common.last_intensity[0] = 10
    /\ last.pre.common.last_intensity[4] = 0
    /\ d2.common.last_intensity[0] = 10
    /\ d2.common.last_intensity[4] = 10

\* C27: for every non-first point with level l, in the v2 compressor and
\* decompressor, z is coded with prediction last_height[l] as it was before
\* the point, then last_height[l] is the point's z; no other entry of
\* last_height is changed by the operation.
C27_LastHeightMaintenance ==
    V2PointDone =>
        /\ CallsTo("ic_z") # {}
        /\ PredictedWith("ic_z", last.pre.common.last_height[BucketL(last.point)])
        /\ \A i \in CallsTo("ic_z") : last.calls[i].actual = last.point.z
        /\ V2After.common.last_height[BucketL(last.point)] = last.point.z
        /\ \A j \in 0..7 : j # BucketL(last.point) => SameEntry("last_height", j)

\* a point of level 1 was decoded after points of level 0: predicted with
\* the 0 of its own level, the 300 of level 0 left alone
C27_Witness ==
    /\ last.op = "v2_decompress"
    /\ last.status = "ok"
    /\ BucketL(last.point) = 1
    /\ last.pre.common.last_height[0] = 300
    /\ \E i \in CallsTo("ic_z") : last.calls[i].pred = 0 /\ last.calls[i].actual = 300
    /\ d2.common.last_height[0] = 300
    /\ d2.common.last_height[1] = 300

\* the median of coordinate f in bucket m was read for the prediction
\* before one value, the difference of f between the point and the point
\* before it, was added to it
MedianUsedOnce(coder, table, f) ==
    /\ \E i \in CallsTo(coder) : CallsTo(coder) = { i }
    /\ PredictedWith(coder,
           StreamingMedianGet(last.pre.common[table][BucketM(last.point)]))
    /\ \A i \in CallsTo(coder) :
           last.calls[i].actual = WrappingSub32(last.point[f], last.pre.last_point[f])
    /\ V2After.common[table][BucketM(last.point)] =
           StreamingMedianAdd(last.pre.common[table][BucketM(last.point)],
                              WrappingSub32(last.point[f], last.pre.last_point[f]))
    /\ \A j \in 0..15 : j # BucketM(last.point) => SameEntry(table, j)

LazyVectors == { "bit_byte_models", "classification_models", "user_data_models" }

\* the calls of a stream made on the model at index idx of vector vec
UsesOf(calls, vec, idx) ==
    { j \in 1..Len(calls) : calls[j].coder = vec /\ calls[j].sel = idx }

\* the models of a codec are those the calls of the stream used, each
\* adapted once per use since it was created
BuiltAsUsed(c, calls) ==
    \A vec \in LazyVectors :
        /\ DOMAIN c[vec].built =
               { calls[j].sel : j \in { i \in 1..Len(calls) : calls[i].coder = vec } }
        /\ \A idx \in DOMAIN c[vec].built :
               c[vec].built[idx] =
                   [ symbols |-> 256, coded |-> Cardinality(UsesOf(calls, vec, idx)) ]

\* a vector with all 256 models allocated: those built so far as they are,
\* the others fresh
AllBuilt(models) ==
    [ models EXCEPT !.built =
        [ idx \in 0..255 |-> IF idx \in DOMAIN models.built THEN models.built[idx]
                             ELSE NewModel(256) ] ]

\* a v1 codec with the 256 models of each vector allocated up front
Eager(c) ==
    [ c EXCEPT !.bit_byte_models = AllBuilt(@),
               !.classification_models = AllBuilt(@),
               !.user_data_models = AllBuilt(@) ]

\* the operation `last` records, run on the eager codec instead
EagerRun ==
    IF last.op = "v1_compress"
    THEN V1CompressFieldWith(Eager(last.pre), last.point, overflow_checks)
    ELSE V1DecompressFieldWith(Eager(last.pre), sink1.calls,
                               rd1.calls - Len(last.calls) + 1, overflow_checks)

\* the value of the field a lazy vector belongs to, in a point
IndexIn(vec, p) ==
    IF vec = "bit_byte_models" THEN bit_fields_to_byte(p)
    ELSE IF vec = "classification_models" THEN p.classification
    ELSE p.user_data

\* C29: in the v1 compressor and decompressor the model at index i of
\* bit_byte_models, classification_models and user_data_models is created
\* the first time a change of that field is coded with previous value i, is
\* never replaced or reset afterwards, and no model exists at an index
\* never used; the (model index, symbol) pairs coded are those coded with
\* all 256 models allocated up front.
C29_LazyModelsAsEager ==
    /\ BuiltAsUsed(c1, sink1.calls)
    /\ BuiltAsUsed(d1, SubSeq(sink1.calls, 1, rd1.calls))
    /\ last.op \in { "v1_compress", "v1_decompress" } =>
           /\ \A vec \in LazyVectors :
                  SelectedWith(vec, IndexIn(vec, last.pre.last_point))
           /\ \E e \in { EagerRun } :
                  /\ e.calls = last.calls
                  /\ e.status = last.status
                  /\ e.c = Eager(V1After)

\* classification went 2, 3, 2, 3: the fourth point was decoded with the
\* model of index 2 that the second point created, adapted twice by now
C29_Witness ==
    /\ last.op = "v1_decompress"
    /\ last.status = "ok"
    /\ Len(got1) = 4
    /\ 2 \in DOMAIN last.pre.classification_models.built
    /\ last.pre.classification_models.built[2].coded = 1
    /\ d1.classification_models.built[2].coded = 2
    /\ DOMAIN d1.classification_models.built = { 2, 3 }
    /\ DOMAIN d1.user_data_models.built = {}

\* the indices at which a codec holds a model, vector by vector
BuiltIndices(c) == [ vec \in LazyVectors |-> DOMAIN c[vec].built ]

\* what a coder was asked: which coder, which context or model index, which
\* prediction, and the residual or symbol on the stream
Asked(calls) ==
    [ i \in 1..Len(calls) |->
        [ coder |-> calls[i].coder, sel |-> calls[i].sel,
          pred |-> calls[i].pred, code |-> calls[i].code ] ]

\* C30: once the v1 compressor has encoded P0..Pk and the v1 decompressor
\* has decoded the stream up to Pk, the two hold equal last_point (= Pk),
\* equal last_x_diffs and last_y_diffs, equal last_incr and the same set of
\* lazily created model indices; and for every point the decompressor
\* passes to each coder the prediction, context and model index the
\* compressor passed.
C30_V1Lockstep ==
    /\ (got1 # << >> /\ Len(got1) = Len(sent1)) =>
           /\ d1.last_point = c1.last_point
           /\ d1.last_point = sent1[Len(sent1)]
           /\ d1.last_x_diffs = c1.last_x_diffs
           /\ d1.last_y_diffs = c1.last_y_diffs
           /\ d1.last_incr = c1.last_incr
           /\ BuiltIndices(d1) = BuiltIndices(c1)
           /\ \A vec \in LazyVectors : d1[vec] = c1[vec]
    /\ (last.op = "v1_decompress" /\ last.status = "ok") =>
           \E e \in { V1CompressFieldWith(last.pre, sent1[Len(got1)], overflow_checks) } :
               /\ e.status = "ok"
               /\ Asked(e.calls) = Asked(last.calls)
               /\ e.c = d1

\* the decompressor caught up with the compressor on a third point that
\* differs from the second in every field
C30_Witness ==
    /\ last.op = "v1_decompress"
    /\ last.status = "ok"
    /\ Len(got1) = 3
    /\ Len(sent1) = 3
    /\ sent1[3] = OtherPoint
    /\ sent1[2] # BasePoint
    /\ d1.last_point = OtherPoint
    /\ DOMAIN d1.classification_models.built # {}
    /\ d1.last_incr = 2

\* the state of v2::Common a codec holds besides its models
V2Tables(c) ==
    [ last_intensity |-> c.common.last_intensity,
      last_height |-> c.common.last_height,
      last_x_diff_median |-> c.common.last_x_diff_median,
      last_y_diff_median |-> c.common.last_y_diff_median ]

\* the last point of a codec, its intensity left out
LastPointButIntensity(c) == [ c.last_point EXCEPT !.intensity = 0 ]

\* the v2 compressor as it was when it had coded the points before the one
\* the decompressor just returned
V2CompressorBehind == V2CompressAlone(SubSeq(sent2, 1, Len(got2) - 1)).c

\* C31: for every non-first point the v2 decompressor selects the model
\* index the compressor selected for each symbol (bit_byte, classification
\* and user_data by the previous point's value of the field,
\* scan_angle_rank by the current point's scan_direction_flag) and passes
\* the same prediction and context to each integer coder; after each point
\* the two hold equal last_intensity, last_height, medians and last_point
\* fields other than intensity.
C31_V2Lockstep ==
    /\ (last.status = "ok" /\ got2 # << >> /\ Len(got2) = Len(sent2)) =>
           /\ V2Tables(d2) = V2Tables(c2)
           /\ LastPointButIntensity(d2) = LastPointButIntensity(c2)
    /\ (last.op = "v2_decompress" /\ last.status = "ok") =>
           /\ SelectedWith("bit_byte", bit_fields_to_byte(last.pre.last_point))
           /\ SelectedWith("classification", last.pre.last_point.classification)
           /\ SelectedWith("user_data", last.pre.last_point.user_data)
           /\ SelectedWith("scan_angle_rank",
                           BoolAsInt(sent2[Len(got2)].scan_direction_flag))
           /\ \E e \in { V2CompressFieldWith(V2CompressorBehind, sent2[Len(got2)],
                                              overflow_checks) } :
                  /\ e.status = "ok"
                  /\ Asked(e.calls) = Asked(last.calls)
                  /\ V2Tables(e.c) = V2Tables(d2)
                  /\ LastPointButIntensity(e.c) = LastPointButIntensity(d2)
                  /\ e.c.common = d2.common

\* the decompressor caught up with the compressor on a third point whose
\* bit fields, classification, scan angle and user data all changed
C31_Witness ==
    /\ last.op = "v2_decompress"
    /\ last.status = "ok"
    /\ Len(got2) = 3
    /\ Len(sent2) = 3
    /\ CallsTo("bit_byte") # {}
    /\ CallsTo("classification") # {}
    /\ CallsTo("scan_angle_rank") # {}
    /\ CallsTo("user_data") # {}
    /\ sent2[3].scan_direction_flag # sent2[2].scan_direction_flag
    /\ sent2[2] # sent2[1]

\* the v2 decompressor has returned a point and its last operation, if it
\* was the last of all, did not fail
V2DecoderSettled ==
    /\ got2 # << >>
    /\ last.op \in { "v2_decompress_first", "v2_decompress" } => last.status = "ok"

\* C32: after the first-point operation and after every successful
\* decompress operation of the v2 decompressor, last_point.intensity equals
\* last_intensity[m], m being the bucket of last_point's number_of_returns
\* and return_number.
C32_DecoderIntensityInBucket ==
    V2DecoderSettled =>
        d2.last_point.intensity = d2.common.last_intensity[BucketM(d2.last_point)]

\* the third point moved to a bucket that had no intensity yet and came
\* with its intensity bit clear: last_point.intensity went from 20 to the 0
\* of that bucket
C32_Witness ==
    /\ last.op = "v2_decompress"
    /\ last.status = "ok"
    /\ Len(got2) = 3
    /\ last.locals.cv # 0
    /\ ~intensity_changed(last.locals.cv)
    /\ last.pre.last_point.intensity = 20
    /\ BucketM(d2.last_point) # BucketM(last.pre.last_point)
    /\ d2.last_point.intensity = 0

\* the fields of the codecs that hold an integer coder
V1IntegerCoders ==
    { "ic_dx", "ic_dy", "ic_dz", "ic_intensity", "ic_scan_angle_rank",
      "ic_point_source_id" }
V2IntegerCoders == { "ic_intensity", "ic_point_source_id", "ic_dx", "ic_dy", "ic_z" }

\* the bit width and context count a coder was built with
BuiltWith(coder) == [ bits |-> coder.bits, contexts |-> coder.contexts ]

\* every call of the last operation on an integer coder passed a context
\* below the count the coder was built with
ContextsWithinCount(coders) ==
    \A i \in 1..Len(last.calls) :
        last.calls[i].coder \in coders =>
            /\ last.calls[i].sel >= 0
            /\ last.calls[i].sel < last.pre[last.calls[i].coder].contexts

\* every call of the last operation on coder `name` passed a context below
\* `count`
ContextBelow(name, count) == \A i \in CallsTo(name) : last.calls[i].sel < count

\* the values k() of an integer coder can return
KValues == 0..32

\* the context expressions of the handlers, for every k a coder can return,
\* every number of returns n and every bucket m, are below the context
\* counts the coders are built with
ContextExpressionsWithinCount ==
    /\ \A k \in KValues :
           /\ V1CoordContext(k) < V1CompressorNew.ic_dy.contexts
           /\ V1CoordContext(k) < V1CompressorNew.ic_dz.contexts
           /\ BoolAsInt(k < 3) < V1CompressorNew.ic_scan_angle_rank.contexts
           /\ \A n \in 0..7 :
                  /\ BoolAsInt(n = 1) < V2CompressorNew.ic_dx.contexts
                  /\ V2CoordContext(n, k, 20) < V2CompressorNew.ic_dy.contexts
                  /\ V2CoordContext(n, k, 18) < V2CompressorNew.ic_z.contexts
    /\ \A mm \in 0..15 : V2IntensityContext(mm) < V2CompressorNew.ic_intensity.contexts

\* new() of each decompressor gives every integer coder the bit width and
\* context count new() of the compressor gives it
DecodersBuiltAsEncoders ==
    /\ \A name \in V1IntegerCoders :
           BuiltWith(V1DecompressorNew[name]) = BuiltWith(V1CompressorNew[name])
    /\ \A name \in V2IntegerCoders :
           BuiltWith(V2DecompressorNew[name]) = BuiltWith(V2CompressorNew[name])

\* C33: for every k in 0..32 returned by the integer coders and every
\* point, the context passed is below the number of contexts the coder was
\* built with, in compressor and decompressor alike: v1 dy < 20, v1 z < 20,
\* v1 scan_angle_rank < 2; v2 dx < 2, v2 dy < 22, v2 z < 20, v2 intensity
\* < 4; and each decompressor's coder is built with the bit width and
\* context count of the matching compressor's coder.
C33_ContextsWithinCount ==
    /\ last.op \in { "v1_compress", "v1_decompress" } =>
           /\ ContextsWithinCount(V1IntegerCoders)
           /\ ContextBelow("ic_dy", 20)
           /\ ContextBelow("ic_dz", 20)
           /\ ContextBelow("ic_scan_angle_rank", 2)
    /\ last.op \in { "v2_compress", "v2_decompress" } =>
           /\ ContextsWithinCount(V2IntegerCoders)
           /\ ContextBelow("ic_dx", 2)
           /\ ContextBelow("ic_dy", 22)
           /\ ContextBelow("ic_z", 20)
           /\ ContextBelow("ic_intensity", 4)
    /\ ContextExpressionsWithinCount
    /\ DecodersBuiltAsEncoders
    /\ \A name \in V1IntegerCoders :
           /\ BuiltWith(d1[name]) = BuiltWith(c1[name])
           /\ BuiltWith(c1[name]) = BuiltWith(V1CompressorNew[name])
    /\ \A name \in V2IntegerCoders :
           /\ BuiltWith(d2[name]) = BuiltWith(c2[name])
           /\ BuiltWith(c2[name]) = BuiltWith(V2CompressorNew[name])

\* a single-return point far from the one before: the v2 decompressor
\* passed dy and z their highest contexts, 21 and 19, with k of dx above 20
C33_Witness ==
    /\ last.op = "v2_decompress"
    /\ last.status = "ok"
    /\ d2.ic_dx.k >= 20
    /\ \E i \in CallsTo("ic_dy") : last.calls[i].sel = 21
    /\ \E i \in CallsTo("ic_z") : last.calls[i].sel = 19

\* the vectors of models of v2::Common
V2ModelVectors == { "scan_angle_rank", "bit_byte", "classification", "user_data" }

\* r and n of a point index the two 8x8 tables, and what the tables give
\* indexes last_intensity and the medians (m) and last_height (l)
BucketIndicesInRange(p) ==
    /\ p.return_number \in 0..7
    /\ p.number_of_returns_of_given_pulse \in 0..7
    /\ BucketM(p) \in DOMAIN CommonNew.last_intensity
    /\ BucketM(p) \in DOMAIN CommonNew.last_x_diff_median
    /\ BucketM(p) \in DOMAIN CommonNew.last_y_diff_median
    /\ BucketL(p) \in DOMAIN CommonNew.last_height

\* the values of a point that select a model are indices of their vectors
ModelIndicesInRange(p) ==
    /\ bit_fields_to_byte(p) \in 0..(CommonNew.bit_byte.len - 1)
    /\ p.classification \in 0..(CommonNew.classification.len - 1)
    /\ p.user_data \in 0..(CommonNew.user_data.len - 1)
    /\ BoolAsInt(p.scan_direction_flag) \in 0..(CommonNew.scan_angle_rank.len - 1)

\* every model the last operation used is at an index of its vector
ModelCallsInRange ==
    \A i \in 1..Len(last.calls) :
        last.calls[i].coder \in V2ModelVectors =>
            last.calls[i].sel \in 0..(last.pre.common[last.calls[i].coder].len - 1)

\* whatever byte the bit fields are populated from, the indices they give
\* are in range
EveryBitFieldsByteInRange ==
    \A byte \in Bytes :
        /\ BucketIndicesInRange(populate_bit_fields_from(DefaultPoint0, byte))
        /\ ModelIndicesInRange(populate_bit_fields_from(DefaultPoint0, byte))

\* the two tables are 8x8, last_intensity has 16 entries and last_height 8
TablesAsDeclared ==
    /\ Len(NUMBER_RETURN_MAP) = 8 /\ Len(NUMBER_RETURN_LEVEL) = 8
    /\ \A n \in 1..8 : Len(NUMBER_RETURN_MAP[n]) = 8 /\ Len(NUMBER_RETURN_LEVEL[n]) = 8
    /\ DOMAIN CommonNew.last_intensity = 0..15
    /\ DOMAIN CommonNew.last_height = 0..7

\* C34: in every v2 compress and decompress operation, for any point given
\* through the 20-byte buffer interface and any decoded symbol values, the
\* indices used are within range: n and r < 8 for the two 8x8 tables,
\* m < 16 for last_intensity and both median vectors, l < 8 for
\* last_height, the previous bit_fields, classification and user_data
\* value < 256 for the model vectors, and the scan_direction_flag index
\* < 2.
C34_IndicesInBounds ==
    /\ EveryBitFieldsByteInRange
    /\ TablesAsDeclared
    /\ \A c \in { c2, d2 } :
           /\ BucketIndicesInRange(c.last_point)
           /\ ModelIndicesInRange(c.last_point)
    /\ last.op \in { "v2_buf_compress_with", "v2_buf_decompress_with" } =>
           /\ BucketIndicesInRange(last.point)
           /\ ModelIndicesInRange(last.point)
           /\ ModelCallsInRange
           /\ last.locals.n \in 0..7
           /\ last.locals.m \in 0..15
           /\ last.locals.l \in 0..7

\* the v2 decompressor filled a buffer with a point of two returns whose
\* bit fields, classification, scan angle and user data were decoded with
\* the models the previous values select
C34_Witness ==
    /\ last.op = "v2_buf_decompress_with"
    /\ last.status = "ok"
    /\ last.point = OtherPoint
    /\ last.locals.m = BucketM(OtherPoint)
    /\ last.locals.l = BucketL(OtherPoint)
    /\ \E i \in CallsTo("bit_byte") : last.calls[i].sel = bit_fields_to_byte(BasePoint)
    /\ \E i \in CallsTo("scan_angle_rank") : last.calls[i].sel = 1
    /\ CallsTo("classification") # {}
    /\ CallsTo("user_data") # {}

\* the sum last.<field> + diff a decompress operation computed for the
\* difference it decoded on `coder` stayed within the i32 range
SumInRange(coder, field) ==
    \A i \in CallsTo(coder) :
        ~AddOverflows32(last.pre.last_point[field], last.calls[i].actual)

\* C35: for every pair of consecutive points with x and y anywhere in the
\* signed 32-bit range, the differences current.x - last.x and current.y -
\* last.y computed by the v1 and v2 compressors, and the sums last.x + diff
\* and last.y + diff computed by the decompressors, lie within the signed
\* 32-bit range.
C35_CoordinateDifferencesInRange ==
    /\ last.op \in { "v1_compress", "v2_compress" } =>
           /\ ~SubOverflows32(last.point.x, last.pre.last_point.x)
           /\ ~SubOverflows32(last.point.y, last.pre.last_point.y)
    /\ last.op \in { "v1_decompress", "v2_decompress" } =>
           /\ SumInRange("ic_dx", "x")
           /\ SumInRange("ic_dy", "y")

\* the number of bits set in a changed_values symbol
PopCount(sym) ==
    BoolAsInt(BitSet(sym, 32)) + BoolAsInt(BitSet(sym, 16)) + BoolAsInt(BitSet(sym, 8))
    + BoolAsInt(BitSet(sym, 4)) + BoolAsInt(BitSet(sym, 2)) + BoolAsInt(BitSet(sym, 1))

\* the bit of each field in the changed_values symbol of v1 (lines 645-702)
\* and of v2 (lines 1328-1393)
V1FieldBits ==
    [ intensity |-> 32, bit_fields |-> 16, classification |-> 8,
      scan_angle_rank |-> 4, user_data |-> 2, point_source_id |-> 1 ]
V2FieldBits ==
    [ bit_fields |-> 32, intensity |-> 16, classification |-> 8,
      scan_angle_rank |-> 4, user_data |-> 2, point_source_id |-> 1 ]

\* a field of a point as the changed_values bits name it: bit_fields is the
\* four packed sub-fields
NamedField(p, field) ==
    IF field = "bit_fields"
    THEN << p.return_number, p.number_of_returns_of_given_pulse,
            p.scan_direction_flag, p.edge_of_flight_line >>
    ELSE p[field]

\* the last point of `got` has, in each of `fields` whose bit is clear in
\* the symbol of the last operation, the value the point before it has
CarriedOver(got, bits, fields) ==
    \A field \in fields :
        ~BitSet(last.locals.cv, bits[field]) =>
            NamedField(got[Len(got)], field) = NamedField(got[Len(got) - 1], field)

\* C36: in both versions a non-first point produces exactly
\* 4 + popcount(changed_values) coder calls (changed_values, x, y, z, plus
\* one per set bit), and on decode every one of intensity, bit_fields,
\* classification, scan_angle_rank, user_data, point_source_id whose bit is
\* clear in v1 (every one except intensity in v2) has in the returned point
\* the value it had in the previously returned point.
C36_UnchangedFieldsCarriedOver ==
    /\ ( /\ last.op \in { "v1_compress", "v1_decompress", "v2_compress",
                          "v2_decompress" }
         /\ last.status = "ok" ) =>
           /\ Len(last.calls) = 4 + PopCount(last.locals.cv)
           /\ \E i \in CallsTo("changed_values") :
                  /\ CallsTo("changed_values") = { i }
                  /\ last.calls[i].actual = last.locals.cv
    /\ (last.op = "v1_decompress" /\ last.status = "ok") =>
           CarriedOver(got1, V1FieldBits, DOMAIN V1FieldBits)
    /\ (last.op = "v2_decompress" /\ last.status = "ok") =>
           CarriedOver(got2, V2FieldBits, DOMAIN V2FieldBits \ { "intensity" })

\* a third point that differs from the second in classification only: the
\* v2 decompressor made five calls and returned the other fields as they
\* were
C36_Witness ==
    /\ last.op = "v2_decompress"
    /\ last.status = "ok"
    /\ Len(got2) = 3
    /\ last.locals.cv = 8
    /\ Len(last.calls) = 5
    /\ got2[3].classification # got2[2].classification
    /\ got2[3].point_source_id = 7
    /\ got2[2].point_source_id = 7
    /\ got2[1] = OtherPoint

\* the last operation was the first-point operation `op` and failed
FirstPointFailed(op) == last.op = op /\ last.status = "err"

\* C37: in both versions, if writing the first point to the sink
\* (compressor) or reading it from the source (decompressor) fails, the
\* codec's last_point and all other codec state are exactly as they were
\* before the call.
C37_FailedFirstPointSeedsNothing ==
    /\ FirstPointFailed("v1_compress_first") =>
           c1 = last.pre /\ c1 = V1CompressorNew /\ sent1 = << >>
    /\ FirstPointFailed("v1_decompress_first") =>
           d1 = last.pre /\ d1 = V1DecompressorNew /\ got1 = << >>
    /\ FirstPointFailed("v2_compress_first") =>
           c2 = last.pre /\ c2 = V2CompressorNew /\ sent2 = << >>
    /\ FirstPointFailed("v2_decompress_first") =>
           d2 = last.pre /\ d2 = V2DecompressorNew /\ got2 = << >>

\* the source of the v1 decompressor was cut short after x, y, z and
\* intensity of the first point: the caller's point holds them, the
\* decompressor does not
C37_Witness ==
    /\ FirstPointFailed("v1_decompress_first")
    /\ fault = 5
    /\ last.nbytes = 14
    /\ last.point.x = sent1[1].x
    /\ last.point.x # 0
    /\ d1.last_point = DefaultPoint0

===========================================================================
